---- MODULE Spec2Model ----
(***************************************************************************)
(* The agent execution gateway of synapse: the agent registry and the      *)
(* request handlers of the FastAPI wrappers.                               *)
(*                                                                         *)
(*   wrapper "pydantic": script/src/synapse_python/pydantic_agent_wrapper  *)
(*   wrapper "axon":     apps/axon_python/src/axon_python/agent_wrapper    *)
(*   wrapper "script":   script/src/axon_python/agent_wrapper              *)
(*                                                                         *)
(* A handler runs atomically up to its first await on the agent (the       *)
(* event loop is single threaded); the awaited call is kept in `pending`   *)
(* and completes in a later step.                                          *)
(***************************************************************************)
EXTENDS Integers, Sequences, FiniteSets, TLC

\* ---------------------------------------------------------------- bounds
MaxPending == 1        \* handlers suspended at an await at the same time
MaxChunks == 2         \* text chunks the model stream of one run produces
MaxCalls == 2          \* completion calls one agent run is followed for
MaxHistory == 3        \* parts of a message sequence a caller replays
MaxChats == 2          \* chats the chat application creates
MaxTurns == 2          \* response streams of the chat application in flight
MaxStored == 4         \* messages one chat stores
MaxCount == 6          \* requests and errors a HealthManager counts
MaxRequests == 4       \* requests of one StreamPredict request stream

\* ------------------------------------------------------------ input sets
AgentIds == {"test_agent", "nonexistent"}
AxonAgentIds == AgentIds \cup {"example_agent"}
ValidModels == {"gemini-1.5-flash"}
InvalidModels == {"invalid-model"}
SystemPrompts == {"You are a test assistant."}
ToolNames == {"test_tool", "nonexistent"}
ToolLists == {<< >>, <<"test_tool">>}

\* request bodies of POST /agents: complete configs and one without agent_id
CompleteBodies ==
    [agent_id : AgentIds, model : ValidModels \cup InvalidModels,
     system_prompt : SystemPrompts, tools : ToolLists]
IncompleteBodies == [model : ValidModels]
Bodies == CompleteBodies \cup IncompleteBodies
ValidBodies == {c \in CompleteBodies : c.model \in ValidModels}

AxonBodies ==
    [agent_id : AxonAgentIds, model : ValidModels,
     system_prompt : SystemPrompts, tools : ToolLists]
      \cup IncompleteBodies

\* a JSON value of the arguments of a tool call, with its primitive kind
Value(kind, value) == [kind |-> kind, value |-> value]

\* arguments of a tool call: {"input": "test"} and arguments without "input"
ToolArgs == {[input |-> Value("string", "test")], [other |-> Value("string", "test")]}

\* more arguments: another input, an input with an unknown extra field, an
\* input of the wrong kind ({"input": 1})
ToolCallArgs ==
    ToolArgs \cup
        {[input |-> Value("string", "again")],
         [input |-> Value("string", "test"), extra |-> Value("string", "x")],
         [input |-> Value("integer", "1")]}

\* exceptions the awaited agent call can end with
RunErrors == {"UnexpectedModelBehavior", "ValidationError", "RuntimeError"}

\* a message part: its kind, its content and the tool call it belongs to
Part(part_kind, content, call_id) ==
    [part_kind |-> part_kind, content |-> content, call_id |-> call_id]
SystemPromptPart(content) == Part("system-prompt", content, 0)
UserPromptPart(content) == Part("user-prompt", content, 0)
TextPart(content) == Part("text", content, 0)
ToolCallPart(tool_name, call_id) == Part("tool-call", tool_name, call_id)
ToolReturnPart(call_id) == Part("tool-return", "", call_id)
RetryPromptPart(call_id) == Part("retry-prompt", "", call_id)

\* the message_history of the run_request fixture
FixtureHistory ==
    <<SystemPromptPart("You are a test assistant."), UserPromptPart("Hello"),
      TextPart("Hi there!")>>

\* usage_limits a caller sends: none, no token at all, one request
UsageLimits == {<< >>, [max_total_tokens |-> 0], [max_requests |-> 1]}

\* JSON bodies of POST /run: a first prompt with or without limits, and the
\* run_request fixture
RunBody(prompt, message_history, usage_limits) ==
    [prompt |-> prompt, message_history |-> message_history,
     usage_limits |-> usage_limits]
RunBodies ==
    {RunBody("Hello", << >>, limits) : limits \in UsageLimits}
        \cup {RunBody("Hello", FixtureHistory, << >>)}

\* RunRequest: the fields the model declares; pydantic drops every other
\* field of the body
RunRequestFields == {"prompt", "message_history"}
RunRequest(run_body) ==
    [f \in DOMAIN run_body \cap RunRequestFields |-> run_body[f]]

VARIABLES
    agent_instances,        \* pydantic wrapper: dict agent_id -> Agent
    axon_agent_instances,   \* axon wrapper: dict agent_id -> Agent
    script_agent_instances, \* script wrapper: dict agent_id -> Agent
    pending,                \* handlers suspended at an await
    resp,                   \* the response of the handler that finished last
    invoked,                \* what the last handler step called: a subset of
                            \* {"agent", "handler"}
    tool_result,            \* the body {"result": ...} the last handler step
                            \* answered a tool call with, empty if it did not
    stream_gen,             \* the generator behind the StreamingResponse
    stream_pc,              \* where that generator is suspended
    result,                 \* the model stream it iterates (agent.run_stream)
    events,                 \* the events the consumer has received
    consumer_exc,           \* the exception raised to the consumer, "" if none
    late_events,            \* events yielded after the consumer closed the stream
    last_run,               \* the agent run awaited by the handler that
                            \* returned last: what it was given, how it ended
    resp_body,              \* the JSON body of that handler's answer
    chat_histories,         \* chat app: dict chat_id -> the messages of the chat
    next_chat_id,           \* chat app: the id the next new chat gets
    turns,                  \* chat app: the response streams in flight
    last_turn,              \* chat app: the turn whose stream ended last
    health_manager,         \* gRPC service: the fields of its HealthManager
    metrics,                \* gRPC service: what get_health_metrics returned last
    stream_predict          \* gRPC service: the StreamPredict call in progress

registries == <<agent_instances, axon_agent_instances, script_agent_instances>>
streamvars == <<stream_gen, stream_pc, result, events, consumer_exc, late_events>>
runvars == <<last_run, resp_body>>
chatvars == <<chat_histories, next_chat_id, turns, last_turn>>
grpcvars == <<health_manager, metrics, stream_predict>>
vars == <<agent_instances, axon_agent_instances, script_agent_instances,
          pending, resp, invoked, tool_result, stream_gen, stream_pc, result, events,
          consumer_exc, late_events, last_run, resp_body,
          chat_histories, next_chat_id, turns, last_turn,
          health_manager, metrics, stream_predict>>

\* ------------------------------------------------------------ dictionaries
DictSet(d, k, v) == [x \in DOMAIN d \cup {k} |-> IF x = k THEN v ELSE d[x]]
DictDel(d, k) == [x \in DOMAIN d \ {k} |-> d[x]]
EmptyDict == [x \in {} |-> x]

\* ------------------------------------------------------------------ agents
example_agent ==
    [model |-> "openai:gpt-4o",
     system_prompt |-> "You are a helpful assistant that answers in JSON format.",
     tools |-> << >>]

\* Agent(model, system_prompt=..., tools=...): the constructor rejects a model
\* it does not know
AgentRaises(model) == model \in InvalidModels
Agent(model, system_prompt, tools) ==
    [model |-> model, system_prompt |-> system_prompt, tools |-> tools]

Range(s) == {s[i] : i \in DOMAIN s}

\* ---------------------------------------------------------------- responses
Response(app, op, agent_id, status, error) ==
    [app |-> app, op |-> op, agent_id |-> agent_id, status |-> status,
     error |-> error]
NoResponse == Response("", "", "", 0, "")
NoToolResult == << >>

RequiredConfigFields == {"agent_id", "model", "system_prompt"}

\* --------------------------------------------------------------- exceptions
Exc(type, status_code, detail) ==
    [type |-> type, status_code |-> status_code, detail |-> detail]
NoExc == Exc("", 0, "")

\* raise HTTPException(status_code=..., detail=str(e))
HTTPException(status_code, detail) == Exc("HTTPException", status_code, detail)

\* pydantic wrapper: the status an exception leaving an endpoint is answered
\* with (agent_error_handler, validation_error_handler, model_error_handler,
\* FastAPI's own handling of HTTPException, 500 for anything else)
ExceptionStatus(exc) ==
    CASE exc.type = "HTTPException" -> exc.status_code
      [] exc.type = "AgentNotFoundError" -> 404
      [] exc.type = "AgentError" -> 500
      [] exc.type = "ValidationError" -> 422
      [] exc.type = "UnexpectedModelBehavior" -> 500
      [] OTHER -> 500

\* pydantic wrapper, the except clause of every endpoint:
\*   except Exception as e: raise HTTPException(status_code=500, detail=str(e))
EndpointError(e) == HTTPException(500, e)

\* the tool registry of an agent: agent.call_tool(tool_name, args) resolves the
\* tool, validates the arguments against its parameter schema (required fields
\* present) and only then invokes the handler
ToolRequired(tool_name) == IF tool_name = "test_tool" THEN {"input"} ELSE {}

\* the kinds the parameter schema of a tool declares for its fields
ToolProperties(tool_name) ==
    IF tool_name = "test_tool" THEN [input |-> "string"] ELSE << >>

\* a registry that checks the required fields only
AgentCallToolRequiredOnly(agent, tool_name, args) ==
    IF tool_name \notin Range(agent.tools) THEN "ToolNotFound"
    ELSE IF ~(ToolRequired(tool_name) \subseteq DOMAIN args)
    THEN "ArgumentValidationError"
    ELSE ""

AgentCallTool(agent, tool_name, args) ==
    IF tool_name \notin Range(agent.tools) THEN "ToolNotFound"
    ELSE IF ~(ToolRequired(tool_name) \subseteq DOMAIN args)
    THEN "ArgumentValidationError"
    ELSE IF \E f \in DOMAIN args \cap DOMAIN ToolProperties(tool_name) :
                args[f].kind # ToolProperties(tool_name)[f]
    THEN "ArgumentValidationError"
    ELSE ""

\* a pure tool handler: its result is made of the tool and of the declared
\* fields of the arguments
ToolHandler(tool_name, args) ==
    [tool |-> tool_name,
     args |-> [f \in DOMAIN args \cap DOMAIN ToolProperties(tool_name) |-> args[f]]]

\* ---------------------------------------------------------------- agent runs
\* what an awaited agent.run ends with: the exception it raised ("" if none),
\* the data, all messages of the conversation, the usage counters and the
\* retries it used
Usage(requests, total_tokens) ==
    [requests |-> requests, total_tokens |-> total_tokens]
RunResult(outcome, data, messages, usage, retries) ==
    [outcome |-> outcome, data |-> data, messages |-> messages,
     usage |-> usage, retries |-> retries]

\* a run of which only the outcome is followed
Ended(outcome) == RunResult(outcome, "", << >>, Usage(0, 0), 0)

\* the run a handler awaited: the body of its request, the keyword arguments
\* it passed to the agent and what the run ended with
Run(app, run_body, kwargs, r) ==
    [app |-> app, run_body |-> run_body, kwargs |-> kwargs, result |-> r]
NoRun == Run("", << >>, << >>, Ended(""))

\* retries an agent built without a retry setting has (AgentConfig has none)
RetryBudget == 1

\* what the completion capability answers one call with: a final text that
\* passes validation, one that fails it, a call of the agent's tool that
\* returns, a call of it that fails
ModelResponses == {"text", "invalid", "tool-call", "tool-error"}
Scripts == UNION {[1..n -> ModelResponses] : n \in 0..MaxCalls}

\* the optional keyword arguments of a run
KwHistory(kwargs) ==
    IF "message_history" \in DOMAIN kwargs THEN kwargs.message_history ELSE << >>
KwLimits(kwargs) ==
    IF "usage_limits" \in DOMAIN kwargs THEN kwargs.usage_limits ELSE << >>

\* no further request fits the limits the run was given
LimitReached(limits, usage) ==
    \/ /\ "max_requests" \in DOMAIN limits
       /\ usage.requests >= limits.max_requests
    \/ /\ "max_total_tokens" \in DOMAIN limits
       /\ usage.total_tokens >= limits.max_total_tokens

\* the request the run starts with: the system prompt only when there is no
\* history, the history, the new user prompt
InitialMessages(agent, kwargs) ==
    (IF KwHistory(kwargs) = << >>
     THEN <<SystemPromptPart(agent.system_prompt)>> ELSE KwHistory(kwargs))
        \o <<UserPromptPart(kwargs.prompt)>>

\* the identifier of the next tool call of a conversation
NextCallId(messages) ==
    Cardinality({i \in DOMAIN messages : messages[i].part_kind = "tool-call"}) + 1

\* the tool the model calls: the agent's first tool
CalledTool(agent) == IF agent.tools = << >> THEN "nonexistent" ELSE agent.tools[1]

\* a run that aborts at the first failed response
RecoversNever(retries) == FALSE

\* a failed response (a result that fails validation, a tool that fails) is
\* answered with a RetryPromptPart while the retry budget lasts
Recovers(retries) == retries < RetryBudget

\* the run loop; script[k] is the answer to the k-th completion call. A run
\* that needs more calls than the script has is "unfinished"; Answers tells
\* that the run made exactly the calls the script answers.
RECURSIVE RunLoop(_, _, _, _, _, _)
RunLoop(agent, limits, script, messages, usage, retries) ==
    IF LimitReached(limits, usage)
    THEN RunResult("UsageLimitExceeded", "", messages, usage, retries)
    ELSE IF usage.requests >= Len(script)
    THEN RunResult("unfinished", "", messages, usage, retries)
    ELSE LET response == script[usage.requests + 1]
             used == Usage(usage.requests + 1, usage.total_tokens + 1)
             call_id == NextCallId(messages)
             tool == CalledTool(agent)
             tool_fails == response = "tool-error" \/ tool \notin Range(agent.tools)
         IN  CASE response = "text" ->
                    RunResult("", "Hi there!",
                              Append(messages, TextPart("Hi there!")), used, retries)
               [] response = "invalid" ->
                    IF ~Recovers(retries)
                    THEN RunResult("ValidationError", "",
                                   Append(messages, TextPart("?")), used, retries)
                    ELSE RunLoop(agent, limits, script,
                                 messages \o <<TextPart("?"), RetryPromptPart(0)>>,
                                 used, retries + 1)
               [] tool_fails ->
                    IF ~Recovers(retries)
                    THEN RunResult("UnexpectedModelBehavior", "",
                                   Append(messages, ToolCallPart(tool, call_id)),
                                   used, retries)
                    ELSE RunLoop(agent, limits, script,
                                 messages \o <<ToolCallPart(tool, call_id),
                                               RetryPromptPart(call_id)>>,
                                 used, retries + 1)
               [] OTHER ->
                    RunLoop(agent, limits, script,
                            messages \o <<ToolCallPart(tool, call_id),
                                          ToolReturnPart(call_id)>>,
                            used, retries)

\* agent.run(prompt, message_history=..., usage_limits=...)
AgentRun(agent, kwargs, script) ==
    RunLoop(agent, KwLimits(kwargs), script, InitialMessages(agent, kwargs),
            Usage(0, 0), 0)

Answers(script, r) ==
    r.outcome # "unfinished" /\ r.usage.requests = Len(script)

\* ===================================================== the pydantic wrapper
\* _get_agent: the agent in a one-element sequence, empty when the lookup
\* raises AgentNotFoundError
get_agent(agent_id) ==
    IF agent_id \in DOMAIN agent_instances
    THEN <<agent_instances[agent_id]>> ELSE << >>

\* a handler suspended at an await: the request it serves (slot tells two equal
\* requests apart) and the agent it resolved
FreeSlots == (1..MaxPending) \ {p.slot : p \in pending}
Pending(app, op, agent_id, agent) ==
    [slot |-> CHOOSE n \in FreeSlots : \A k \in FreeSlots : n <= k,
     app |-> app, op |-> op, agent_id |-> agent_id, agent |-> agent,
     run_body |-> << >>, kwargs |-> << >>]

\* keyword arguments that put the system prompt of the request
\* (RunRequest.system_prompt) in front of the history
RunKwargsWithSystemPrompt(request) ==
    [prompt |-> request.prompt,
     message_history |-> <<SystemPromptPart("You are a test assistant.")>>
                            \o request.message_history]

\* the keyword arguments run_agent and run_agent_stream pass on with the prompt
\* (message_history=request.message_history; model_settings is not followed)
RunKwargs(request) ==
    [prompt |-> request.prompt, message_history |-> request.message_history]

\* create_agent that stores the entry before the agent is built
\* (agent_instances[config.agent_id] = Agent(...) split in two statements)
create_agent_register_first(config) ==
    /\ IF ~(RequiredConfigFields \subseteq DOMAIN config)
       THEN /\ resp' = Response("pydantic", "create_agent", "", 422,
                                "RequestValidationError")
            /\ UNCHANGED agent_instances
       ELSE /\ agent_instances' = DictSet(agent_instances, config.agent_id,
                    Agent(config.model, config.system_prompt, config.tools))
            /\ resp' = IF AgentRaises(config.model)
                       THEN Response("pydantic", "create_agent", config.agent_id,
                                ExceptionStatus(EndpointError("UserError")),
                                "UserError")
                       ELSE Response("pydantic", "create_agent", config.agent_id,
                                200, "")
    /\ invoked' = {}
    /\ tool_result' = NoToolResult
    /\ UNCHANGED <<axon_agent_instances, script_agent_instances, pending>>
    /\ UNCHANGED streamvars
    /\ UNCHANGED runvars
    /\ UNCHANGED chatvars
    /\ UNCHANGED grpcvars

\* POST /agents
create_agent(config) ==
    /\ IF ~(RequiredConfigFields \subseteq DOMAIN config)
       THEN \* FastAPI rejects the body before the handler runs
            /\ resp' = Response("pydantic", "create_agent", "", 422,
                                "RequestValidationError")
            /\ UNCHANGED agent_instances
       ELSE IF AgentRaises(config.model)
       THEN \* the except clause
            /\ resp' = Response("pydantic", "create_agent", config.agent_id,
                    ExceptionStatus(EndpointError("UserError")), "UserError")
            /\ UNCHANGED agent_instances
       ELSE /\ agent_instances' = DictSet(agent_instances, config.agent_id,
                    Agent(config.model, config.system_prompt, config.tools))
            /\ resp' = Response("pydantic", "create_agent", config.agent_id, 200, "")
    /\ invoked' = {}
    /\ tool_result' = NoToolResult
    /\ UNCHANGED <<axon_agent_instances, script_agent_instances, pending>>
    /\ UNCHANGED streamvars
    /\ UNCHANGED runvars
    /\ UNCHANGED chatvars
    /\ UNCHANGED grpcvars

\* delete_agent without the membership test (agent_instances.pop(agent_id, None))
delete_agent_nocheck(agent_id) ==
    /\ agent_instances' = DictDel(agent_instances, agent_id)
    /\ resp' = Response("pydantic", "delete_agent", agent_id, 200, "")
    /\ invoked' = {}
    /\ tool_result' = NoToolResult
    /\ UNCHANGED <<axon_agent_instances, script_agent_instances, pending>>
    /\ UNCHANGED streamvars
    /\ UNCHANGED runvars
    /\ UNCHANGED chatvars
    /\ UNCHANGED grpcvars

\* DELETE /agents/{agent_id}
delete_agent(agent_id) ==
    /\ IF agent_id \in DOMAIN agent_instances
       THEN /\ agent_instances' = DictDel(agent_instances, agent_id)
            /\ resp' = Response("pydantic", "delete_agent", agent_id, 200, "")
       ELSE /\ resp' = Response("pydantic", "delete_agent", agent_id,
                    ExceptionStatus(Exc("AgentNotFoundError", 0, "")),
                    "AgentNotFoundError")
            /\ UNCHANGED agent_instances
    /\ invoked' = {}
    /\ tool_result' = NoToolResult
    /\ UNCHANGED <<axon_agent_instances, script_agent_instances, pending>>
    /\ UNCHANGED streamvars
    /\ UNCHANGED runvars
    /\ UNCHANGED chatvars
    /\ UNCHANGED grpcvars

\* run_agent with the lookup moved into the try block, where the except clause
\* turns AgentNotFoundError into 500
run_agent_lookup_in_try(agent_id, run_body) ==
    /\ IF get_agent(agent_id) = << >>
       THEN /\ resp' = Response("pydantic", "run_agent", agent_id,
                    ExceptionStatus(EndpointError("AgentNotFoundError")),
                    "AgentNotFoundError")
            /\ invoked' = {}
            /\ tool_result' = NoToolResult
            /\ UNCHANGED pending
       ELSE /\ FreeSlots # {}
            /\ pending' = pending \cup
                    {[Pending("pydantic", "run_agent", agent_id,
                              get_agent(agent_id)[1])
                        EXCEPT !.run_body = run_body,
                               !.kwargs = RunKwargs(RunRequest(run_body))]}
            /\ invoked' = {"agent"}
            /\ tool_result' = NoToolResult
            /\ UNCHANGED resp
    /\ UNCHANGED registries
    /\ UNCHANGED streamvars
    /\ UNCHANGED runvars
    /\ UNCHANGED chatvars
    /\ UNCHANGED grpcvars

\* POST /run, up to the await of agent.run
run_agent(agent_id, run_body) ==
    /\ IF get_agent(agent_id) = << >>
       THEN /\ resp' = Response("pydantic", "run_agent", agent_id,
                    ExceptionStatus(Exc("AgentNotFoundError", 0, "")),
                    "AgentNotFoundError")
            /\ invoked' = {}
            /\ tool_result' = NoToolResult
            /\ UNCHANGED pending
       ELSE /\ FreeSlots # {}
            /\ pending' = pending \cup
                    {[Pending("pydantic", "run_agent", agent_id,
                              get_agent(agent_id)[1])
                        EXCEPT !.run_body = run_body,
                               !.kwargs = RunKwargs(RunRequest(run_body))]}
            /\ invoked' = {"agent"}
            /\ tool_result' = NoToolResult
            /\ UNCHANGED resp
    /\ UNCHANGED registries
    /\ UNCHANGED streamvars
    /\ UNCHANGED runvars
    /\ UNCHANGED chatvars
    /\ UNCHANGED grpcvars

\* a body that lists the messages newest first
run_agent_body_newest_first(r) ==
    [result |-> r.data,
     messages |-> [i \in 1..Len(r.messages) |-> r.messages[Len(r.messages) + 1 - i]],
     usage |-> r.usage]

\* the body run_agent returns:
\*   {"result": result.data, "messages": result.all_messages(), "usage": result.usage}
run_agent_body(r) ==
    [result |-> r.data, messages |-> r.messages, usage |-> r.usage]

\* run_agent whose except clause answers a failed run with an empty result
\* (return {"result": None, "messages": [], "usage": None})
run_agent_return_fallback(p, r) ==
    /\ p \in pending /\ p.app = "pydantic" /\ p.op = "run_agent"
    /\ pending' = pending \ {p}
    /\ resp' = Response("pydantic", "run_agent", p.agent_id, 200, "")
    /\ resp_body' = IF r.outcome = ""
                    THEN [result |-> r.data, messages |-> r.messages,
                          usage |-> r.usage]
                    ELSE [result |-> "", messages |-> << >>, usage |-> Usage(0, 0)]
    /\ last_run' = Run("pydantic", p.run_body, p.kwargs, r)
    /\ invoked' = {}
    /\ tool_result' = NoToolResult
    /\ UNCHANGED registries
    /\ UNCHANGED streamvars
    /\ UNCHANGED chatvars
    /\ UNCHANGED grpcvars

\* run_agent that resolves the agent once more when the run has ended
\* (_get_agent(agent_id) after the await)
run_agent_return_relookup(p, r) ==
    /\ p \in pending /\ p.app = "pydantic" /\ p.op = "run_agent"
    /\ pending' = pending \ {p}
    /\ IF get_agent(p.agent_id) = << >>
       THEN /\ resp' = Response("pydantic", "run_agent", p.agent_id,
                    ExceptionStatus(Exc("AgentNotFoundError", 0, "")),
                    "AgentNotFoundError")
            /\ resp_body' = [error |-> "AgentNotFoundError"]
       ELSE IF r.outcome = ""
       THEN /\ resp' = Response("pydantic", "run_agent", p.agent_id, 200, "")
            /\ resp_body' = run_agent_body(r)
       ELSE /\ resp' = Response("pydantic", "run_agent", p.agent_id,
                            ExceptionStatus(EndpointError(r.outcome)), r.outcome)
            /\ resp_body' = [detail |-> r.outcome]
    /\ last_run' = Run("pydantic", p.run_body, p.kwargs, r)
    /\ invoked' = {}
    /\ tool_result' = NoToolResult
    /\ UNCHANGED registries
    /\ UNCHANGED streamvars
    /\ UNCHANGED chatvars
    /\ UNCHANGED grpcvars

\* POST /run, from the await on; r is what the awaited agent.run ended with:
\* the result is answered as {"result": result.data, "messages":
\* result.all_messages(), "usage": result.usage}, an exception by the except
\* clause with 500
run_agent_return(p, r) ==
    /\ p \in pending /\ p.app = "pydantic" /\ p.op = "run_agent"
    /\ pending' = pending \ {p}
    /\ IF r.outcome = ""
       THEN /\ resp' = Response("pydantic", "run_agent", p.agent_id, 200, "")
            /\ resp_body' = run_agent_body(r)
       ELSE /\ resp' = Response("pydantic", "run_agent", p.agent_id,
                            ExceptionStatus(EndpointError(r.outcome)), r.outcome)
            /\ resp_body' = [detail |-> r.outcome]
    /\ last_run' = Run("pydantic", p.run_body, p.kwargs, r)
    /\ invoked' = {}
    /\ tool_result' = NoToolResult
    /\ UNCHANGED registries
    /\ UNCHANGED streamvars
    /\ UNCHANGED chatvars
    /\ UNCHANGED grpcvars

\* call_tool whose except clause drops the agent it failed on
call_tool_evicts(agent_id, tool_name, args) ==
    /\ IF get_agent(agent_id) = << >>
       THEN /\ resp' = Response("pydantic", "call_tool", agent_id,
                    ExceptionStatus(Exc("AgentNotFoundError", 0, "")),
                    "AgentNotFoundError")
            /\ invoked' = {}
            /\ tool_result' = NoToolResult
            /\ UNCHANGED <<pending, agent_instances>>
       ELSE LET agent == get_agent(agent_id)[1]
                raised == AgentCallTool(agent, tool_name, args)
            IN  IF raised # ""
                THEN /\ resp' = Response("pydantic", "call_tool", agent_id,
                            ExceptionStatus(EndpointError(raised)), raised)
                     /\ invoked' = {"agent"}
                     /\ tool_result' = NoToolResult
                     /\ agent_instances' = DictDel(agent_instances, agent_id)
                     /\ UNCHANGED pending
                ELSE /\ FreeSlots # {}
                     /\ pending' = pending \cup
                            {[Pending("pydantic", "call_tool", agent_id, agent)
                                EXCEPT !.kwargs = [tool_name |-> tool_name,
                                                   args |-> args]]}
                     /\ invoked' = {"agent", "handler"}
                     /\ tool_result' = NoToolResult
                     /\ UNCHANGED <<resp, agent_instances>>
    /\ UNCHANGED <<axon_agent_instances, script_agent_instances>>
    /\ UNCHANGED streamvars
    /\ UNCHANGED runvars
    /\ UNCHANGED chatvars
    /\ UNCHANGED grpcvars

\* POST /tool_call, up to the await of the tool handler
call_tool(agent_id, tool_name, args) ==
    /\ IF get_agent(agent_id) = << >>
       THEN /\ resp' = Response("pydantic", "call_tool", agent_id,
                    ExceptionStatus(Exc("AgentNotFoundError", 0, "")),
                    "AgentNotFoundError")
            /\ invoked' = {}
            /\ tool_result' = NoToolResult
            /\ UNCHANGED pending
       ELSE LET agent == get_agent(agent_id)[1]
                raised == AgentCallTool(agent, tool_name, args)
            IN  IF raised # ""
                THEN \* the except clause
                     /\ resp' = Response("pydantic", "call_tool", agent_id,
                            ExceptionStatus(EndpointError(raised)), raised)
                     /\ invoked' = {"agent"}
                     /\ tool_result' = NoToolResult
                     /\ UNCHANGED pending
                ELSE /\ FreeSlots # {}
                     /\ pending' = pending \cup
                            {[Pending("pydantic", "call_tool", agent_id, agent)
                                EXCEPT !.kwargs = [tool_name |-> tool_name,
                                                   args |-> args]]}
                     /\ invoked' = {"agent", "handler"}
                     /\ tool_result' = NoToolResult
                     /\ UNCHANGED resp
    /\ UNCHANGED registries
    /\ UNCHANGED streamvars
    /\ UNCHANGED runvars
    /\ UNCHANGED chatvars
    /\ UNCHANGED grpcvars

\* call_tool that calls the tool without the arguments of the request
\* (agent.call_tool(request.tool_name, {}))
call_tool_return_drops_args(p, outcome) ==
    /\ p \in pending /\ p.app = "pydantic" /\ p.op = "call_tool"
    /\ pending' = pending \ {p}
    /\ resp' = IF outcome = ""
               THEN Response("pydantic", "call_tool", p.agent_id, 200, "")
               ELSE Response("pydantic", "call_tool", p.agent_id,
                        ExceptionStatus(EndpointError(outcome)), outcome)
    /\ tool_result' = IF outcome = ""
                      THEN [result |-> ToolHandler(p.kwargs.tool_name, << >>)]
                      ELSE NoToolResult
    /\ invoked' = {}
    /\ UNCHANGED runvars
    /\ UNCHANGED registries
    /\ UNCHANGED streamvars
    /\ UNCHANGED chatvars
    /\ UNCHANGED grpcvars

\* POST /tool_call, from the await on: the result of the handler is answered
\* as {"result": result}, an exception by the except clause with 500
call_tool_return(p, outcome) ==
    /\ p \in pending /\ p.app = "pydantic" /\ p.op = "call_tool"
    /\ pending' = pending \ {p}
    /\ resp' = IF outcome = ""
               THEN Response("pydantic", "call_tool", p.agent_id, 200, "")
               ELSE Response("pydantic", "call_tool", p.agent_id,
                        ExceptionStatus(EndpointError(outcome)), outcome)
    /\ tool_result' = IF outcome = ""
                      THEN [result |-> ToolHandler(p.kwargs.tool_name, p.kwargs.args)]
                      ELSE NoToolResult
    /\ invoked' = {}
    /\ UNCHANGED runvars
    /\ UNCHANGED registries
    /\ UNCHANGED streamvars
    /\ UNCHANGED chatvars
    /\ UNCHANGED grpcvars

\* ========================================================= the axon wrapper
\* _resolve_tools is called by create_agent but its definition is commented out
ResolveToolsDefined == FALSE

\* POST /agents
axon_create_agent(data) ==
    LET raised ==
            IF "agent_id" \notin DOMAIN data THEN Exc("KeyError", 0, "agent_id")
            ELSE IF data.agent_id \in DOMAIN axon_agent_instances
            THEN HTTPException(400, "Agent with this ID already exists")
            ELSE IF ~ResolveToolsDefined THEN Exc("NameError", 0, "_resolve_tools")
            ELSE NoExc
        agent_id == IF "agent_id" \in DOMAIN data THEN data.agent_id ELSE ""
    IN  /\ IF raised = NoExc
           THEN /\ axon_agent_instances' = DictSet(axon_agent_instances, agent_id,
                        Agent(data.model, data.system_prompt, data.tools))
                /\ resp' = Response("axon", "create_agent", agent_id, 200, "")
           ELSE \* except ValidationError -> 400; except Exception -> 500
                /\ resp' = Response("axon", "create_agent", agent_id,
                        IF raised.type = "ValidationError" THEN 400 ELSE 500,
                        raised.detail)
                /\ UNCHANGED axon_agent_instances
        /\ invoked' = {}
        /\ tool_result' = NoToolResult
        /\ UNCHANGED <<agent_instances, script_agent_instances, pending>>
        /\ UNCHANGED streamvars
        /\ UNCHANGED runvars
        /\ UNCHANGED chatvars
        /\ UNCHANGED grpcvars

\* logger is used by the handlers below but the module never defines it
LoggerDefined == FALSE

\* POST /agents/{agent_id}/run_sync, the handler the route resolves to (the
\* first of the two definitions): agent.run_sync is called without await, with
\* message_history, model_settings and usage_limits taken from the body; the
\* logger.info that follows a finished run raises NameError inside the try
axon_run_agent_sync(agent_id, request_data, script) ==
    /\ IF agent_id \notin DOMAIN axon_agent_instances
       THEN /\ script = << >>
            /\ resp' = Response("axon", "run_agent_sync", agent_id, 404,
                                "Agent not found")
            /\ invoked' = {}
            /\ tool_result' = NoToolResult
            /\ UNCHANGED runvars
       ELSE LET kwargs == [prompt |-> request_data.prompt,
                           message_history |-> request_data.message_history,
                           usage_limits |-> request_data.usage_limits]
                r == AgentRun(axon_agent_instances[agent_id], kwargs, script)
                raised == IF r.outcome # "" THEN r.outcome
                          ELSE IF ~LoggerDefined THEN "NameError" ELSE ""
            IN  /\ Answers(script, r)
                /\ resp' = Response("axon", "run_agent_sync", agent_id,
                        CASE raised = "" -> 200
                          [] raised = "ValidationError" -> 400
                          [] OTHER -> 500,
                        raised)
                /\ resp_body' = IF raised = ""
                                THEN [result |-> r.data, usage |-> r.usage]
                                ELSE [detail |-> raised]
                /\ last_run' = Run("axon", request_data, kwargs, r)
                /\ invoked' = {"agent"}
                /\ tool_result' = NoToolResult
    /\ UNCHANGED <<registries, pending>>
    /\ UNCHANGED streamvars
    /\ UNCHANGED chatvars
    /\ UNCHANGED grpcvars

\* ======================================================= the script wrapper
\* POST /agents/{agent_id}/run_sync, up to the await of agent.run_sync
run_agent_sync(agent_id) ==
    /\ IF agent_id \notin DOMAIN script_agent_instances
       THEN /\ resp' = Response("script", "run_agent_sync", agent_id, 404,
                                "Agent not found")
            /\ invoked' = {}
            /\ tool_result' = NoToolResult
            /\ UNCHANGED pending
       ELSE /\ FreeSlots # {}
            /\ pending' = pending \cup
                    {Pending("script", "run_agent_sync", agent_id,
                             script_agent_instances[agent_id])}
            /\ invoked' = {"agent"}
            /\ tool_result' = NoToolResult
            /\ UNCHANGED resp
    /\ UNCHANGED registries
    /\ UNCHANGED streamvars
    /\ UNCHANGED runvars
    /\ UNCHANGED chatvars
    /\ UNCHANGED grpcvars

run_agent_sync_return(p, outcome) ==
    /\ p \in pending /\ p.app = "script" /\ p.op = "run_agent_sync"
    /\ pending' = pending \ {p}
    /\ resp' = Response("script", "run_agent_sync", p.agent_id,
                        IF outcome = "" THEN 200 ELSE 500, outcome)
    /\ invoked' = {}
    /\ tool_result' = NoToolResult
    /\ UNCHANGED registries
    /\ UNCHANGED streamvars
    /\ UNCHANGED runvars
    /\ UNCHANGED chatvars
    /\ UNCHANGED grpcvars

\* ================================================================ streaming
\* One streaming response is followed at a time: a new one is opened once the
\* previous one has ended or was closed.
Chunks == {"Hi", "[DONE]"}

\* the model stream (the result of agent.run_stream): the chunks it has
\* produced and its state ("open", "ended", "failed")
NoResult == [produced |-> << >>, state |-> "open"]

\* what the model stream answers when the generator asks it for the next chunk
Item(kind, value) == [kind |-> kind, value |-> value]
Items ==
    {Item("chunk", c) : c \in Chunks}
        \cup {Item("stop", ""), Item("raise", "UnexpectedModelBehavior")}

\* an event on the wire: "<field>: <payload>\n\n"; enc tells how the payload
\* was encoded ("raw" text, a JSON string, a JSON object {"error": ...})
Event(field, enc, payload) == [field |-> field, enc |-> enc, payload |-> payload]
DoneEvent == Event("data", "raw", "[DONE]")

\* what one resumption of a generator does: where it suspends next, the events
\* it yields and the exception it raises to the consumer ("returned": it ended
\* with StopAsyncIteration; "raised": it ended with exc)
Resumed(pc, yielded, exc) == [pc |-> pc, yielded |-> yielded, exc |-> exc]

\* a generator suspended at these places asks the model stream for its next
\* chunk when it is resumed
Pulls(pc) == pc \in {"start", "yield_data"}

\* _stream_response without its except clause: the failure of the model stream
\* reaches the consumer once the finally clause has yielded
stream_response_noexcept(pc, item) ==
    IF Pulls(pc)
    THEN CASE item.kind = "chunk" ->
                Resumed("yield_data", <<Event("data", "raw", item.value)>>, "")
           [] item.kind = "raise" -> Resumed("yield_failed", <<DoneEvent>>, "")
           [] OTHER -> Resumed("yield_done", <<DoneEvent>>, "")
    ELSE IF pc = "yield_failed"
    THEN Resumed("raised", << >>, "UnexpectedModelBehavior")
    ELSE Resumed("returned", << >>, "")

\* pydantic wrapper, _stream_response resumed by __anext__:
\*   try: async for chunk in result: yield f"data: {chunk}\n\n"
\*   except Exception as e: yield f"error: {str(e)}\n\n"
\*   finally: yield "data: [DONE]\n\n"
stream_response(pc, item) ==
    IF Pulls(pc)
    THEN CASE item.kind = "chunk" ->
                Resumed("yield_data", <<Event("data", "raw", item.value)>>, "")
           [] item.kind = "raise" ->
                Resumed("yield_error", <<Event("error", "raw", item.value)>>, "")
           [] OTHER -> Resumed("yield_done", <<DoneEvent>>, "")
    ELSE IF pc = "yield_error"
    THEN Resumed("yield_done", <<DoneEvent>>, "")
    ELSE Resumed("returned", << >>, "")

\* _stream_response closed (aclose) while suspended at pc: GeneratorExit is
\* raised at the yield, no except clause takes it, and the finally clause yields
\* again, which Python answers with RuntimeError("async generator ignored
\* GeneratorExit"); a generator that has not started, or is suspended at the
\* yield of the finally clause, just ends
stream_response_close(pc) ==
    IF pc \in {"yield_data", "yield_error"}
    THEN [exc |-> "RuntimeError", yielded |-> <<DoneEvent>>]
    ELSE [exc |-> "", yielded |-> << >>]

\* axon wrapper, event_stream resumed by __anext__:
\*   try: async for event in result: yield f"data: {json.dumps(...)}\n\n"
\*   except Exception as e: yield f"data: {json.dumps({'error': str(e)})}\n\n"
event_stream(pc, item) ==
    IF Pulls(pc)
    THEN CASE item.kind = "chunk" ->
                Resumed("yield_data", <<Event("data", "json_string", item.value)>>, "")
           [] item.kind = "raise" ->
                Resumed("yield_error", <<Event("data", "json_error", item.value)>>, "")
           [] OTHER -> Resumed("returned", << >>, "")
    ELSE Resumed("returned", << >>, "")

\* event_stream closed while suspended: GeneratorExit leaves the generator
event_stream_close(pc) == [exc |-> "", yielded |-> << >>]

StreamOpen ==
    stream_pc \in {"start", "yield_data", "yield_error", "yield_done", "yield_failed"}

OpenStream(gen) ==
    /\ stream_gen' = gen
    /\ stream_pc' = "start"
    /\ result' = NoResult
    /\ events' = << >>
    /\ consumer_exc' = ""
    /\ late_events' = << >>

\* pydantic wrapper, POST /run/stream, up to the await of agent.run_stream
run_agent_stream(agent_id) ==
    /\ IF get_agent(agent_id) = << >>
       THEN /\ resp' = Response("pydantic", "run_agent_stream", agent_id,
                    ExceptionStatus(Exc("AgentNotFoundError", 0, "")),
                    "AgentNotFoundError")
            /\ invoked' = {}
            /\ tool_result' = NoToolResult
            /\ UNCHANGED pending
       ELSE /\ FreeSlots # {}
            /\ pending' = pending \cup
                    {Pending("pydantic", "run_agent_stream", agent_id,
                             get_agent(agent_id)[1])}
            /\ invoked' = {"agent"}
            /\ tool_result' = NoToolResult
            /\ UNCHANGED resp
    /\ UNCHANGED registries
    /\ UNCHANGED streamvars
    /\ UNCHANGED runvars
    /\ UNCHANGED chatvars
    /\ UNCHANGED grpcvars

\* POST /run/stream, from the await on: StreamingResponse(_stream_response(
\* result)), or except Exception -> 500
run_agent_stream_return(p, outcome) ==
    /\ p \in pending /\ p.app = "pydantic" /\ p.op = "run_agent_stream"
    /\ pending' = pending \ {p}
    /\ IF outcome = ""
       THEN /\ ~StreamOpen
            /\ resp' = Response("pydantic", "run_agent_stream", p.agent_id, 200, "")
            /\ OpenStream("_stream_response")
       ELSE /\ resp' = Response("pydantic", "run_agent_stream", p.agent_id,
                        ExceptionStatus(EndpointError(outcome)), outcome)
            /\ UNCHANGED streamvars
    /\ invoked' = {}
    /\ tool_result' = NoToolResult
    /\ UNCHANGED registries
    /\ UNCHANGED runvars
    /\ UNCHANGED chatvars
    /\ UNCHANGED grpcvars

\* axon wrapper, POST /agents/{agent_id}/run_stream: agent.run_stream is called
\* without await; the except branch calls logger, which the module never
\* defines, so the NameError is answered with 500
axon_run_agent_stream(agent_id, outcome) ==
    /\ IF agent_id \notin DOMAIN axon_agent_instances
       THEN /\ resp' = Response("axon", "run_agent_stream", agent_id, 404,
                                "Agent not found")
            /\ invoked' = {}
            /\ tool_result' = NoToolResult
            /\ UNCHANGED streamvars
       ELSE IF outcome = ""
       THEN /\ ~StreamOpen
            /\ resp' = Response("axon", "run_agent_stream", agent_id, 200, "")
            /\ invoked' = {"agent"}
            /\ tool_result' = NoToolResult
            /\ OpenStream("event_stream")
       ELSE /\ resp' = Response("axon", "run_agent_stream", agent_id, 500,
                                "NameError")
            /\ invoked' = {"agent"}
            /\ tool_result' = NoToolResult
            /\ UNCHANGED streamvars
    /\ UNCHANGED <<registries, pending>>
    /\ UNCHANGED runvars
    /\ UNCHANGED chatvars
    /\ UNCHANGED grpcvars

\* the consumer reads the next event (__anext__ on the generator); a generator
\* that pulls gets `item` from the model stream
stream_next(item) ==
    /\ StreamOpen
    /\ IF Pulls(stream_pc)
       THEN /\ item.kind = "chunk" => Len(result.produced) < MaxChunks
            /\ result' = CASE item.kind = "chunk" ->
                                [result EXCEPT !.produced = Append(@, item.value)]
                           [] item.kind = "raise" ->
                                [result EXCEPT !.state = "failed"]
                           [] OTHER ->
                                [result EXCEPT !.state = "ended"]
       ELSE /\ item = Item("stop", "")
            /\ UNCHANGED result
    /\ LET g == IF stream_gen = "_stream_response"
                THEN stream_response(stream_pc, item)
                ELSE event_stream(stream_pc, item)
       IN  /\ stream_pc' = g.pc
           /\ events' = events \o g.yielded
           /\ consumer_exc' = g.exc
    /\ UNCHANGED <<stream_gen, late_events>>
    /\ UNCHANGED <<registries, pending, resp, invoked, tool_result>>
    /\ UNCHANGED runvars
    /\ UNCHANGED chatvars
    /\ UNCHANGED grpcvars

\* the consumer stops reading: the generator is closed (aclose); neither
\* generator closes the model stream it iterates
stream_close ==
    /\ StreamOpen
    /\ LET c == IF stream_gen = "_stream_response"
                THEN stream_response_close(stream_pc)
                ELSE event_stream_close(stream_pc)
       IN  /\ consumer_exc' = c.exc
           /\ late_events' = c.yielded
    /\ stream_pc' = "closed"
    /\ UNCHANGED <<stream_gen, result, events>>
    /\ UNCHANGED <<registries, pending, resp, invoked, tool_result>>
    /\ UNCHANGED runvars
    /\ UNCHANGED chatvars
    /\ UNCHANGED grpcvars

\* ===================================================== the chat application
\* ChatMessage(role=..., content=...) and its two conversions
ChatMessage(role, content) ==
    [cls |-> "ChatMessage", role |-> role, content |-> content]
model_dump(m) == [role |-> m.role, content |-> m.content]
Validates(d) == {"role", "content"} \subseteq DOMAIN d
model_validate(d) == ChatMessage(d.role, d.content)

\* bodies of POST /chat/{chat_id}: a prompt, or a list of messages that
\* replaces the history (an empty one, a valid one, one with a message that
\* lacks its content)
ChatBody(kind, body) == [kind |-> kind, body |-> body]
ChatPrompts == {ChatBody("dict", [prompt |-> "Hello"])}
ChatLists ==
    {ChatBody("list", << >>),
     ChatBody("list", <<[role |-> "user", content |-> "Hi"]>>),
     ChatBody("list", <<[role |-> "user"]>>)}
ChatIds == 1..(MaxChats + 1)

\* the chat whose response streams are followed: the first one
StreamedChats == {1}

\* a response stream in flight: the run_chat_stream generator of one chat
\* request. given is the message_history as it was when it was handed to
\* run_stream, passed what that list holds now, shared whether that list is
\* the list the chat stores
FreeTurnSlots == (1..MaxTurns) \ {t.slot : t \in turns}
Turn(chat_id, prompt) ==
    [slot |-> CHOOSE n \in FreeTurnSlots : \A k \in FreeTurnSlots : n <= k,
     chat_id |-> chat_id, prompt |-> prompt, pc |-> "start",
     given |-> << >>, passed |-> << >>, shared |-> FALSE]

\* the turn whose stream ended: how it ended, the history it had handed to
\* the run and what that list holds now, the messages of the run
EndedTurn(t, outcome, run_messages) ==
    [outcome |-> outcome, given |-> t.given, passed |-> t.passed,
     run_messages |-> run_messages]
NoTurn == [outcome |-> "", given |-> << >>, passed |-> << >>, run_messages |-> << >>]

\* the chat has room for the two messages of every turn in flight on it and
\* of one more
HasRoom(chat_id) ==
    Len(chat_histories[chat_id])
        + 2 * (Cardinality({t \in turns : t.chat_id = chat_id}) + 1) <= MaxStored

\* new_chat that does not advance next_chat_id
new_chat_keeps_id ==
    /\ next_chat_id <= MaxChats
    /\ chat_histories' = DictSet(chat_histories, next_chat_id, << >>)
    /\ resp' = Response("chat", "new_chat", ToString(next_chat_id), 200, "")
    /\ UNCHANGED <<next_chat_id, turns, last_turn>>
    /\ UNCHANGED <<registries, pending, invoked, tool_result>>
    /\ UNCHANGED streamvars
    /\ UNCHANGED runvars
    /\ UNCHANGED grpcvars

\* POST /new_chat; the answer {'chat_id': chat_id} names the chat in the
\* identifier field of the response
new_chat ==
    /\ next_chat_id <= MaxChats
    /\ chat_histories' = DictSet(chat_histories, next_chat_id, << >>)
    /\ next_chat_id' = next_chat_id + 1
    /\ resp' = Response("chat", "new_chat", ToString(next_chat_id), 200, "")
    /\ UNCHANGED <<turns, last_turn>>
    /\ UNCHANGED <<registries, pending, invoked, tool_result>>
    /\ UNCHANGED streamvars
    /\ UNCHANGED runvars
    /\ UNCHANGED grpcvars

\* POST /chat/{chat_id}: 404 for an unknown chat; a list replaces the
\* messages of the chat (a message that does not validate raises before the
\* assignment); a prompt is answered with the StreamingResponse over
\* run_and_stream(), which has not started yet
chat(chat_id, request) ==
    /\ IF chat_id \notin DOMAIN chat_histories
       THEN /\ resp' = Response("chat", "chat", "", 404, "Chat not found")
            /\ UNCHANGED <<chat_histories, turns>>
       ELSE IF request.kind = "list"
       THEN IF \A i \in DOMAIN request.body : Validates(request.body[i])
            THEN /\ chat_histories' =
                        DictSet(chat_histories, chat_id,
                                [i \in DOMAIN request.body |->
                                    model_validate(request.body[i])])
                 /\ turns' = {IF t.chat_id = chat_id
                              THEN [t EXCEPT !.shared = FALSE] ELSE t : t \in turns}
                 /\ resp' = Response("chat", "chat", "", 200, "Chat history set")
            ELSE /\ resp' = Response("chat", "chat", "", 500, "ValidationError")
                 /\ UNCHANGED <<chat_histories, turns>>
       ELSE /\ FreeTurnSlots # {}
            /\ HasRoom(chat_id)
            /\ turns' = turns \cup {Turn(chat_id, request.body.prompt)}
            /\ resp' = Response("chat", "chat", "", 200, "")
            /\ UNCHANGED chat_histories
    /\ UNCHANGED <<next_chat_id, last_turn>>
    /\ UNCHANGED <<registries, pending, invoked, tool_result>>
    /\ UNCHANGED streamvars
    /\ UNCHANGED runvars
    /\ UNCHANGED grpcvars

\* a message_history that is the list of the chat itself
\* (message_history=chat_history.messages)
PassedHistoryShared(messages) == [list |-> messages, shared |-> TRUE]

\* message_history=[m.model_dump(mode='json') for m in chat_history.messages]:
\* a new list
PassedHistory(messages) ==
    [list |-> [i \in DOMAIN messages |-> model_dump(messages[i])],
     shared |-> FALSE]

\* what result.all_messages() of the chat run holds: the history it was
\* given, the prompt, the answer
ChatRunMessages(t, final_result) ==
    t.given \o <<UserPromptPart(t.prompt), TextPart(final_result)>>

\* run_chat_stream that stores the prompt before it starts the run
run_chat_stream_enter_stores_prompt(t) ==
    /\ t \in turns /\ t.pc = "start"
    /\ LET h == PassedHistory(chat_histories[t.chat_id])
       IN  turns' = (turns \ {t}) \cup
                {[t EXCEPT !.pc = "streaming", !.given = h.list,
                           !.passed = h.list, !.shared = h.shared]}
    /\ chat_histories' =
            DictSet(chat_histories, t.chat_id,
                    Append(chat_histories[t.chat_id], ChatMessage("user", t.prompt)))
    /\ UNCHANGED <<next_chat_id, last_turn>>
    /\ UNCHANGED <<registries, pending, resp, invoked, tool_result>>
    /\ UNCHANGED streamvars
    /\ UNCHANGED runvars
    /\ UNCHANGED grpcvars

\* run_chat_stream, first resumption: the history is handed to
\* chat_agent.run_stream and the generator runs on to its first yield text
run_chat_stream_enter(t) ==
    /\ t \in turns /\ t.pc = "start"
    /\ LET h == PassedHistory(chat_histories[t.chat_id])
       IN  turns' = (turns \ {t}) \cup
                {[t EXCEPT !.pc = "streaming", !.given = h.list,
                           !.passed = h.list, !.shared = h.shared]}
    /\ UNCHANGED <<chat_histories, next_chat_id, last_turn>>
    /\ UNCHANGED <<registries, pending, resp, invoked, tool_result>>
    /\ UNCHANGED streamvars
    /\ UNCHANGED runvars
    /\ UNCHANGED grpcvars

\* the two appends of a completed turn
StoredMessages(t, final_result) ==
    <<ChatMessage("user", t.prompt), ChatMessage("assistant", final_result)>>

\* run_chat_stream that stores the history it read at its start followed by
\* the two messages (chat_history.messages = history + [user, assistant])
run_chat_stream_end_from_snapshot(t, final_result) ==
    /\ t \in turns /\ t.pc = "streaming"
    /\ chat_histories' =
            DictSet(chat_histories, t.chat_id,
                    [i \in DOMAIN t.given |-> model_validate(t.given[i])]
                        \o StoredMessages(t, final_result))
    /\ turns' = turns \ {t}
    /\ last_turn' = EndedTurn(t, "completed", ChatRunMessages(t, final_result))
    /\ UNCHANGED next_chat_id
    /\ UNCHANGED <<registries, pending, resp, invoked, tool_result>>
    /\ UNCHANGED streamvars
    /\ UNCHANGED runvars
    /\ UNCHANGED grpcvars

\* the stream is exhausted: final_result = await result.get_data(), the run
\* is left, then the two appends to chat_history.messages
run_chat_stream_end(t, final_result) ==
    /\ t \in turns /\ t.pc = "streaming"
    /\ chat_histories' =
            DictSet(chat_histories, t.chat_id,
                    chat_histories[t.chat_id] \o StoredMessages(t, final_result))
    /\ turns' = {IF u.chat_id = t.chat_id /\ u.shared
                 THEN [u EXCEPT !.passed = @ \o StoredMessages(t, final_result)]
                 ELSE u : u \in turns \ {t}}
    /\ last_turn' =
            EndedTurn(IF t.shared
                      THEN [t EXCEPT !.passed = @ \o StoredMessages(t, final_result)]
                      ELSE t,
                      "completed", ChatRunMessages(t, final_result))
    /\ UNCHANGED next_chat_id
    /\ UNCHANGED <<registries, pending, resp, invoked, tool_result>>
    /\ UNCHANGED streamvars
    /\ UNCHANGED runvars
    /\ UNCHANGED grpcvars

\* the run raises, or the consumer closes the response before its end
\* (GeneratorExit at the yield): the generator is left before the appends
run_chat_stream_abort(t, outcome) ==
    /\ t \in turns
    /\ turns' = turns \ {t}
    /\ last_turn' = EndedTurn(t, outcome, << >>)
    /\ UNCHANGED <<chat_histories, next_chat_id>>
    /\ UNCHANGED <<registries, pending, resp, invoked, tool_result>>
    /\ UNCHANGED streamvars
    /\ UNCHANGED runvars
    /\ UNCHANGED grpcvars

\* ========================================================= the gRPC service
\* HealthManager (health.py): last_request, request_count, error_count;
\* _reset_time only feeds uptime_seconds and is not followed
HealthManager(last_request, request_count, error_count) ==
    [last_request |-> last_request, request_count |-> request_count,
     error_count |-> error_count]

\* "healthy" if self.error_count < 5 else "degraded"
DegradedThreshold == 5

\* get_health_metrics that is healthy up to and including the fifth error
get_health_metrics_late(hm) ==
    [status |-> IF hm.error_count <= DegradedThreshold THEN "healthy" ELSE "degraded",
     last_request |-> hm.last_request,
     request_count |-> hm.request_count,
     error_count |-> hm.error_count,
     error_rate |-> IF hm.request_count > 0
                    THEN [num |-> hm.error_count, den |-> hm.request_count]
                    ELSE [num |-> 0, den |-> 1]]

\* HealthManager.get_health_metrics; error_rate is kept as the numerator and
\* the denominator of the quotient
get_health_metrics(hm) ==
    [status |-> IF hm.error_count < DegradedThreshold THEN "healthy" ELSE "degraded",
     last_request |-> hm.last_request,
     request_count |-> hm.request_count,
     error_count |-> hm.error_count,
     error_rate |-> IF hm.request_count > 0
                    THEN [num |-> hm.error_count, den |-> hm.request_count]
                    ELSE [num |-> 0, den |-> 1]]

\* the frame of a step of the gRPC service
GrpcFrame ==
    /\ UNCHANGED <<registries, invoked, tool_result>>
    /\ UNCHANGED streamvars
    /\ UNCHANGED chatvars

\* HealthManager.record_request
record_request ==
    /\ health_manager.request_count < MaxCount
    /\ health_manager' = [health_manager EXCEPT !.last_request = "now",
                                                !.request_count = @ + 1]
    /\ UNCHANGED <<metrics, stream_predict, pending, resp>>
    /\ UNCHANGED runvars
    /\ GrpcFrame

\* HealthManager.record_error
record_error ==
    /\ health_manager.error_count < MaxCount
    /\ health_manager' = [health_manager EXCEPT !.error_count = @ + 1]
    /\ UNCHANGED <<metrics, stream_predict, pending, resp>>
    /\ UNCHANGED runvars
    /\ GrpcFrame

\* HealthManager.reset_metrics
reset_metrics ==
    /\ health_manager' = HealthManager("None", 0, 0)
    /\ UNCHANGED <<metrics, stream_predict, pending, resp>>
    /\ UNCHANGED runvars
    /\ GrpcFrame

\* AIService.GetHealth: metrics = await self.health_manager.get_health_metrics()
GetHealth ==
    /\ metrics' = get_health_metrics(health_manager)
    /\ UNCHANGED <<health_manager, stream_predict, pending, resp>>
    /\ UNCHANGED runvars
    /\ GrpcFrame

\* gRPC status codes in the responses below: OK is 0, UNKNOWN (an exception
\* that leaves the handler) is 2, INTERNAL is 13

\* requests of Predict and StreamPredict: input and parameters
PredictRequest(input, parameters) == [input |-> input, parameters |-> parameters]
PredictRequests ==
    {PredictRequest("Hello", [uppercase |-> "true"]), PredictRequest("World", << >>)}
PredictResponse(output, confidence) == [output |-> output, confidence |-> confidence]

\* AIService.Predict of health.py up to its await of super().Predict: a ping
\* is answered at once; any other request is counted and then handed on
Predict(request) ==
    /\ IF request.input = "ping"
       THEN /\ resp' = Response("grpc", "Predict", request.input, 0, "")
            /\ resp_body' = PredictResponse("pong", 100)
            /\ UNCHANGED <<health_manager, pending>>
       ELSE /\ FreeSlots # {}
            /\ health_manager.request_count < MaxCount
            /\ health_manager' = [health_manager EXCEPT !.last_request = "now",
                                                        !.request_count = @ + 1]
            /\ pending' = pending \cup
                    {Pending("grpc", "Predict", request.input, << >>)}
            /\ UNCHANGED <<resp, resp_body>>
    /\ UNCHANGED <<metrics, stream_predict, last_run>>
    /\ GrpcFrame

\* AIService.Predict from the await on: the result of super().Predict is
\* returned as it is; an exception is counted by record_error and raised again
Predict_return(p, outcome) ==
    /\ p \in pending /\ p.app = "grpc" /\ p.op = "Predict"
    /\ pending' = pending \ {p}
    /\ IF outcome = ""
       THEN /\ resp' = Response("grpc", "Predict", p.agent_id, 0, "")
            /\ resp_body' = [result_of |-> p.agent_id]
            /\ UNCHANGED health_manager
       ELSE /\ health_manager.error_count < MaxCount
            /\ health_manager' = [health_manager EXCEPT !.error_count = @ + 1]
            /\ resp' = Response("grpc", "Predict", p.agent_id, 2, outcome)
            /\ resp_body' = << >>
    /\ UNCHANGED <<metrics, stream_predict, last_run>>
    /\ GrpcFrame

\* PredictionRequest(text=request.input, parameters=dict(request.parameters))
PredictionRequest(request) == [text |-> request.input, parameters |-> request.parameters]

\* _process_prediction: "Processed: " + text, in upper case when the
\* parameters hold "uppercase"; confidence 0.95, kept in hundredths
process_prediction(request) ==
    PredictResponse([prefix |-> "Processed: ", text |-> request.text,
                     upper |-> "uppercase" \in DOMAIN request.parameters], 95)

\* a StreamPredict call: where the generator is, the requests it took from
\* the request stream, the responses it yielded
StreamCall(pc, requests, responses) ==
    [pc |-> pc, requests |-> requests, responses |-> responses]

\* StreamPredict is called: the generator waits for the first request
StreamPredict ==
    /\ stream_predict.pc = "none"
    /\ stream_predict' = StreamCall("waiting", << >>, << >>)
    /\ UNCHANGED <<health_manager, metrics, pending, resp>>
    /\ UNCHANGED runvars
    /\ GrpcFrame

\* async for request in request_iterator: the request is validated and
\* _process_prediction is awaited
StreamPredict_request(request) ==
    /\ stream_predict.pc = "waiting"
    /\ Len(stream_predict.requests) < MaxRequests
    /\ stream_predict' = [stream_predict EXCEPT !.pc = "processing",
                                                !.requests = Append(@, request)]
    /\ UNCHANGED <<health_manager, metrics, pending, resp>>
    /\ UNCHANGED runvars
    /\ GrpcFrame

\* StreamPredict that logs a failed request and goes on with the next one
StreamPredict_processed_skips(outcome) ==
    /\ stream_predict.pc = "processing"
    /\ IF outcome = ""
       THEN stream_predict' =
                [stream_predict EXCEPT
                    !.pc = "waiting",
                    !.responses = Append(@, process_prediction(PredictionRequest(
                        stream_predict.requests[Len(stream_predict.requests)])))]
       ELSE stream_predict' = [stream_predict EXCEPT !.pc = "waiting"]
    /\ UNCHANGED resp
    /\ UNCHANGED <<health_manager, metrics, pending>>
    /\ UNCHANGED runvars
    /\ GrpcFrame

\* _process_prediction is over: its result is yielded as the next response;
\* an exception leaves the loop and the call is aborted with INTERNAL
StreamPredict_processed(outcome) ==
    /\ stream_predict.pc = "processing"
    /\ IF outcome = ""
       THEN /\ stream_predict' =
                [stream_predict EXCEPT
                    !.pc = "waiting",
                    !.responses = Append(@, process_prediction(PredictionRequest(
                        stream_predict.requests[Len(stream_predict.requests)])))]
            /\ UNCHANGED resp
       ELSE /\ stream_predict' = [stream_predict EXCEPT !.pc = "aborted"]
            /\ resp' = Response("grpc", "StreamPredict", "", 13, outcome)
    /\ UNCHANGED <<health_manager, metrics, pending>>
    /\ UNCHANGED runvars
    /\ GrpcFrame

\* the request stream is exhausted: the generator returns
StreamPredict_exhausted ==
    /\ stream_predict.pc = "waiting"
    /\ stream_predict' = [stream_predict EXCEPT !.pc = "done"]
    /\ resp' = Response("grpc", "StreamPredict", "", 0, "")
    /\ UNCHANGED <<health_manager, metrics, pending>>
    /\ UNCHANGED runvars
    /\ GrpcFrame

\* ------------------------------------------------------------ specification
Init ==
    /\ agent_instances = EmptyDict
    /\ axon_agent_instances = [x \in {"example_agent"} |-> example_agent]
    /\ script_agent_instances = [x \in {"example_agent"} |-> example_agent]
    /\ pending = {}
    /\ resp = NoResponse
    /\ invoked = {}
    /\ tool_result = NoToolResult
    /\ stream_gen = ""
    /\ stream_pc = "none"
    /\ result = NoResult
    /\ events = << >>
    /\ consumer_exc = ""
    /\ late_events = << >>
    /\ last_run = NoRun
    /\ resp_body = << >>
    /\ chat_histories = EmptyDict
    /\ next_chat_id = 1
    /\ turns = {}
    /\ last_turn = NoTurn
    /\ health_manager = HealthManager("None", 0, 0)
    /\ metrics = [status |-> "", last_request |-> "None", request_count |-> 0,
                  error_count |-> 0, error_rate |-> [num |-> 0, den |-> 1]]
    /\ stream_predict = StreamCall("none", << >>, << >>)

\* the request Next follows runs with
PlainRunBodies ==
    {b \in RunBodies : b.message_history = << >> /\ b.usage_limits = << >>}

Next ==
    \/ \E config \in Bodies : create_agent(config)
    \/ \E agent_id \in AgentIds : delete_agent(agent_id)
    \/ \E agent_id \in AgentIds, run_body \in PlainRunBodies :
            run_agent(agent_id, run_body)
    \/ \E p \in pending, outcome \in {""} \cup RunErrors :
            run_agent_return(p, Ended(outcome))
    \/ \E agent_id \in AgentIds, tool_name \in ToolNames, args \in ToolArgs :
            call_tool(agent_id, tool_name, args)
    \/ \E p \in pending, outcome \in {"", "RuntimeError"} :
            call_tool_return(p, outcome)
    \/ \E data \in AxonBodies : axon_create_agent(data)
    \/ \E agent_id \in AxonAgentIds : run_agent_sync(agent_id)
    \/ \E p \in pending, outcome \in {""} \cup RunErrors :
            run_agent_sync_return(p, outcome)

Spec == Init /\ [][Next]_vars

\* the streaming endpoints and their consumers; the pydantic registry holds
\* the test agent or nothing
StreamBodies == {c \in CompleteBodies :
                    c.agent_id = "test_agent" /\ c.tools = <<"test_tool">>}
StreamNext ==
    \/ \E config \in StreamBodies : create_agent(config)
    \/ \E agent_id \in AgentIds : delete_agent(agent_id)
    \/ \E agent_id \in AgentIds : run_agent_stream(agent_id)
    \/ \E p \in pending, outcome \in {"", "UnexpectedModelBehavior"} :
            run_agent_stream_return(p, outcome)
    \/ \E agent_id \in {"example_agent", "nonexistent"},
          outcome \in {"", "UnexpectedModelBehavior"} :
            axon_run_agent_stream(agent_id, outcome)
    \/ \E item \in Items : stream_next(item)
    \/ stream_close

StreamSpec == Init /\ [][StreamNext]_vars

\* the runs of the agents: the request bodies with and without history and
\* limits, and the messages of an answered run replayed as history
ReplayBodies ==
    IF "messages" \in DOMAIN resp_body /\ Len(resp_body.messages) <= MaxHistory
    THEN {RunBody("Hello", resp_body.messages, << >>)}
    ELSE {}
LimitedRunBodies == {b \in RunBodies : b.usage_limits # << >>}
RunNext ==
    \/ \E config \in StreamBodies : create_agent(config)
    \/ \E agent_id \in AgentIds, run_body \in RunBodies \cup ReplayBodies :
            run_agent(agent_id, run_body)
    \/ \E p \in pending, script \in Scripts :
            /\ p.op = "run_agent"
            /\ Answers(script, AgentRun(p.agent, p.kwargs, script))
            /\ run_agent_return(p, AgentRun(p.agent, p.kwargs, script))
    \/ \E agent_id \in {"example_agent", "nonexistent"},
          request_data \in LimitedRunBodies, script \in Scripts :
            axon_run_agent_sync(agent_id, request_data, script)

RunSpec == Init /\ [][RunNext]_vars

\* the chat application and its consumers
ChatNext ==
    \/ new_chat
    \/ \E chat_id \in ChatIds, request \in ChatLists : chat(chat_id, request)
    \/ \E chat_id \in StreamedChats, request \in ChatPrompts :
            chat(chat_id, request)
    \/ \E t \in turns : run_chat_stream_enter(t)
    \/ \E t \in turns : run_chat_stream_end(t, "Hi there!")
    \/ \E t \in turns, outcome \in {"failed", "abandoned"} :
            run_chat_stream_abort(t, outcome)

ChatSpec == Init /\ [][ChatNext]_vars

\* the pydantic wrapper and the chat application are two applications, each
\* with its own state; a behaviour follows the requests of one of them: the
\* run, stream and tool endpoints of the wrapper, or the chat application
ChatUntouched ==
    /\ chat_histories = EmptyDict /\ next_chat_id = 1
    /\ turns = {} /\ last_turn = NoTurn /\ resp.app # "chat"
WrapperUntouched ==
    /\ agent_instances = EmptyDict /\ pending = {} /\ resp.app # "pydantic"
    /\ stream_pc = "none" /\ last_run = NoRun
WrapperNext ==
    \/ \E config \in StreamBodies : create_agent(config)
    \/ \E agent_id \in AgentIds, run_body \in PlainRunBodies :
            run_agent(agent_id, run_body)
    \/ \E p \in pending, outcome \in {"", "RuntimeError"} :
            run_agent_return(p, Ended(outcome))
    \/ \E agent_id \in AgentIds, tool_name \in ToolNames, args \in ToolArgs :
            call_tool(agent_id, tool_name, args)
    \/ \E p \in pending, outcome \in {"", "RuntimeError"} :
            call_tool_return(p, outcome)
    \/ \E agent_id \in AgentIds : run_agent_stream(agent_id)
    \/ \E p \in pending, outcome \in {"", "UnexpectedModelBehavior"} :
            run_agent_stream_return(p, outcome)
    \/ \E item \in Items : stream_next(item)
    \/ stream_close
FrameNext ==
    \/ ChatUntouched /\ WrapperNext
    \/ WrapperUntouched /\ ChatNext

FrameSpec == Init /\ [][FrameNext]_vars

\* runs and response streams of the pydantic wrapper while agents are created
\* and deleted; the runs are followed for one completion call, the response
\* streams until they are opened
BorrowScripts == {script \in Scripts : Len(script) <= 1}
BorrowNext ==
    \/ \E config \in StreamBodies : create_agent(config)
    \/ \E agent_id \in AgentIds : delete_agent(agent_id)
    \/ \E agent_id \in AgentIds, run_body \in PlainRunBodies :
            run_agent(agent_id, run_body)
    \/ \E p \in pending, script \in BorrowScripts :
            /\ p.op = "run_agent"
            /\ Answers(script, AgentRun(p.agent, p.kwargs, script))
            /\ run_agent_return(p, AgentRun(p.agent, p.kwargs, script))
    \/ \E agent_id \in AgentIds : run_agent_stream(agent_id)
    \/ \E p \in pending, outcome \in {"", "UnexpectedModelBehavior"} :
            run_agent_stream_return(p, outcome)
    \/ stream_close

BorrowSpec == Init /\ [][BorrowNext]_vars

\* tool calls on the agents of the pydantic wrapper
ToolNext ==
    \/ \E config \in ValidBodies : create_agent(config)
    \/ \E agent_id \in AgentIds : delete_agent(agent_id)
    \/ \E agent_id \in AgentIds, tool_name \in ToolNames, args \in ToolCallArgs :
            call_tool(agent_id, tool_name, args)
    \/ \E p \in pending, outcome \in {"", "RuntimeError"} :
            call_tool_return(p, outcome)

ToolSpec == Init /\ [][ToolNext]_vars

\* the endpoints of the three wrappers with calls that end well or raise an
\* exception of no particular kind
FailureNext ==
    \/ \E config \in CompleteBodies : create_agent(config)
    \/ \E agent_id \in AgentIds, run_body \in PlainRunBodies :
            run_agent(agent_id, run_body)
    \/ \E p \in pending, outcome \in {"", "RuntimeError"} :
            run_agent_return(p, Ended(outcome))
    \/ \E agent_id \in AgentIds, tool_name \in ToolNames, args \in ToolArgs :
            call_tool(agent_id, tool_name, args)
    \/ \E p \in pending, outcome \in {"", "RuntimeError"} :
            call_tool_return(p, outcome)
    \/ \E agent_id \in AgentIds : run_agent_stream(agent_id)
    \/ \E p \in pending, outcome \in {"", "RuntimeError"} :
            run_agent_stream_return(p, outcome)
    \/ \E agent_id \in AxonAgentIds, outcome \in {"", "RuntimeError"} :
            axon_run_agent_stream(agent_id, outcome)
    \/ \E agent_id \in AxonAgentIds : run_agent_sync(agent_id)
    \/ \E p \in pending, outcome \in {"", "RuntimeError"} :
            run_agent_sync_return(p, outcome)
    \/ stream_close

FailureSpec == Init /\ [][FailureNext]_vars

\* the calls on a HealthManager
HealthNext ==
    \/ record_request
    \/ record_error
    \/ reset_metrics
    \/ GetHealth

HealthSpec == Init /\ [][HealthNext]_vars

\* the health-checked AIService: Predict calls, the health report and resets
\* of the metrics
ServiceNext ==
    \/ \E request \in PredictRequests \cup {PredictRequest("ping", << >>)} :
            Predict(request)
    \/ \E p \in pending, outcome \in {"", "RuntimeError"} : Predict_return(p, outcome)
    \/ reset_metrics
    \/ GetHealth

ServiceSpec == Init /\ [][ServiceNext]_vars

\* a StreamPredict call and its request stream
StreamPredictNext ==
    \/ StreamPredict
    \/ \E request \in PredictRequests : StreamPredict_request(request)
    \/ \E outcome \in {"", "RuntimeError"} : StreamPredict_processed(outcome)
    \/ StreamPredict_exhausted

StreamPredictSpec == Init /\ [][StreamPredictNext]_vars

\* ==================================================================== claims
RegisteredIn(d, agent_id) == agent_id \in DOMAIN d
ValidAxonBodies == {d \in AxonBodies : "agent_id" \in DOMAIN d}

\* C1: create_agent for an agent_id that is already registered returns a
\* failure outcome, never success, in either wrapper that has the endpoint.
C1_DuplicateCreateFails ==
    [][/\ \A config \in CompleteBodies :
            (create_agent(config) /\ RegisteredIn(agent_instances, config.agent_id))
                => resp'.status # 200
       /\ \A data \in ValidAxonBodies :
            (axon_create_agent(data)
                /\ RegisteredIn(axon_agent_instances, data.agent_id))
                => resp'.status # 200]_vars

\* C2: a registered agent is immutable in place: as long as an id stays
\* registered (no delete_agent removed it), lookup returns the same agent; a
\* later create_agent with the same id never replaces it.
C2_RegisteredAgentImmutable ==
    [][\A agent_id \in AgentIds :
            (RegisteredIn(agent_instances, agent_id)
                /\ RegisteredIn(agent_instances', agent_id))
                => agent_instances'[agent_id] = agent_instances[agent_id]]_vars

\* C3: for every valid config whose agent_id is not registered, create_agent
\* succeeds and registers the agent, so that the lookup that follows resolves
\* it, in either wrapper that has the endpoint.
C3_CreateThenLookup ==
    [][/\ \A config \in ValidBodies :
            (create_agent(config) /\ ~RegisteredIn(agent_instances, config.agent_id))
                => /\ resp'.status = 200
                   /\ RegisteredIn(agent_instances', config.agent_id)
       /\ \A data \in ValidAxonBodies :
            (axon_create_agent(data)
                /\ ~RegisteredIn(axon_agent_instances, data.agent_id))
                => /\ resp'.status = 200
                   /\ RegisteredIn(axon_agent_instances', data.agent_id)]_vars

\* C4: delete_agent on an unregistered id answers 404 (AgentNotFound) and
\* leaves the registry as it was; on a registered id it succeeds and removes
\* that id only.
C4_DeleteAgent ==
    [][\A agent_id \in AgentIds :
            delete_agent(agent_id) =>
                /\ resp'.op = "delete_agent" /\ resp'.agent_id = agent_id
                /\ IF RegisteredIn(agent_instances, agent_id)
                   THEN /\ resp'.status = 200
                        /\ DOMAIN agent_instances' = DOMAIN agent_instances \ {agent_id}
                        /\ \A other \in DOMAIN agent_instances' :
                                agent_instances'[other] = agent_instances[other]
                   ELSE /\ resp'.status = 404
                        /\ resp'.error = "AgentNotFoundError"
                        /\ agent_instances' = agent_instances]_vars

\* delete_agent answered 404 for one id while another agent stayed registered
C4_Witness ==
    /\ resp.op = "delete_agent" /\ resp.status = 404
    /\ agent_instances # EmptyDict

\* C5: run_sync against an id answers AgentNotFound (404) exactly when the id
\* is not registered at the time of the call, and then nothing is invoked; a
\* run that resolved its agent never ends in 404.
C5_RunNotFoundIffUnregistered ==
    [][/\ \A agent_id \in AgentIds, run_body \in RunBodies :
            run_agent(agent_id, run_body) =>
                IF RegisteredIn(agent_instances, agent_id)
                THEN /\ resp' = resp
                     /\ "agent" \in invoked'
                     /\ pending' # pending
                ELSE /\ resp'.op = "run_agent" /\ resp'.agent_id = agent_id
                     /\ resp'.status = 404
                     /\ invoked' = {}
                     /\ pending' = pending
       /\ \A agent_id \in AxonAgentIds :
            run_agent_sync(agent_id) =>
                IF RegisteredIn(script_agent_instances, agent_id)
                THEN /\ resp' = resp
                     /\ "agent" \in invoked'
                     /\ pending' # pending
                ELSE /\ resp'.op = "run_agent_sync" /\ resp'.agent_id = agent_id
                     /\ resp'.status = 404
                     /\ invoked' = {}
                     /\ pending' = pending
       /\ \A p \in pending, outcome \in {""} \cup RunErrors :
            (run_agent_return(p, Ended(outcome))
                \/ run_agent_sync_return(p, outcome))
                => resp'.status # 404]_vars

\* run_sync answered 404 for an id that is not registered while another id is
\* registered
C5_Witness ==
    /\ resp.op = "run_agent" /\ resp.status = 404
    /\ resp.agent_id = "test_agent"
    /\ ~RegisteredIn(agent_instances, "test_agent")
    /\ RegisteredIn(agent_instances, "nonexistent")

\* the outcome code UnexpectedModelBehavior raised by a run is answered with
ModelBehaviorStatus == ExceptionStatus(EndpointError("UnexpectedModelBehavior"))

\* C6: AgentNotFound and ArgumentValidationError are never answered with the
\* outcome code that ModelBehaviorError is answered with.
C6_RetryableDistinctFromInternal ==
    resp.error \in {"AgentNotFoundError", "ArgumentValidationError"}
        => resp.status # ModelBehaviorStatus

\* C7: call_tool with a tool name the resolved agent does not declare fails
\* with ToolNotFound, invokes no handler and leaves the registry unchanged, so
\* the agent still resolves afterwards.
C7_ToolNotFound ==
    [][\A agent_id \in AgentIds, tool_name \in ToolNames, args \in ToolArgs :
            (/\ call_tool(agent_id, tool_name, args)
             /\ RegisteredIn(agent_instances, agent_id)
             /\ tool_name \notin Range(agent_instances[agent_id].tools))
                => /\ resp'.op = "call_tool" /\ resp'.agent_id = agent_id
                   /\ resp'.status # 200
                   /\ resp'.error = "ToolNotFound"
                   /\ "handler" \notin invoked'
                   /\ pending' = pending
                   /\ agent_instances' = agent_instances
                   /\ RegisteredIn(agent_instances', agent_id)]_vars

\* call_tool failed with ToolNotFound on an agent that declares another tool
C7_Witness ==
    /\ resp.op = "call_tool" /\ resp.error = "ToolNotFound"
    /\ RegisteredIn(agent_instances, resp.agent_id)
    /\ agent_instances[resp.agent_id].tools = <<"test_tool">>

\* C8: an event sequence consumed to its end finishes with exactly one
\* end-of-stream marker, which is its last event.
C8_EndMarkerLast ==
    stream_pc = "returned" =>
        /\ Len(events) > 0
        /\ events[Len(events)] = DoneEvent
        /\ \A i \in 1..(Len(events) - 1) : events[i] # DoneEvent

\* the event a generator emits for a text chunk, and its error elements
Fragment(gen, chunk) ==
    IF gen = "_stream_response" THEN Event("data", "raw", chunk)
    ELSE Event("data", "json_string", chunk)
IsErrorElement(e) == e.field = "error" \/ e.enc = "json_error"

\* C9: when producing the k-th fragment fails, the consumer has received the
\* k-1 fragments produced before, then exactly one error element, and after
\* it nothing but the end of the sequence (no fragment); no exception is
\* raised to the consumer while it iterates.
C9_FailureIsFinalErrorElement ==
    /\ (stream_pc # "closed") => consumer_exc = ""
    /\ stream_pc # "raised"
    /\ (result.state = "failed" /\ stream_pc # "closed") =>
        LET k == Len(result.produced) + 1
        IN  /\ Len(events) >= k
            /\ \A i \in 1..(k - 1) :
                    events[i] = Fragment(stream_gen, result.produced[i])
            /\ IsErrorElement(events[k])
            /\ \A i \in (k + 1)..Len(events) :
                    /\ ~IsErrorElement(events[i])
                    /\ events[i] = DoneEvent
                    /\ i = Len(events)
                    /\ stream_gen = "_stream_response"

\* a stream that failed at its second fragment was consumed to its end
C9_Witness ==
    /\ stream_pc = "returned" /\ result.state = "failed"
    /\ stream_gen = "_stream_response"
    /\ Len(result.produced) = 1
    /\ Len(events) = 3

\* C10: a stream abandoned by its consumer is cancelled: the generator
\* produces no further event and no exception reaches the consumer.
C10_AbandonIsCancellation ==
    stream_pc = "closed" =>
        /\ consumer_exc = ""
        /\ late_events = << >>

\* the wire element that carries the final RunResult of a stream: an event
\* whose payload is the encoded result (neither generator yields one)
IsResultElement(e) == e.enc = "result"

\* C11: a stream of the pydantic wrapper that completed without failure and
\* was consumed to its end has delivered the final RunResult exactly once,
\* after the last text fragment and before the end-of-stream marker.
C11_ResultIsTerminalElement ==
    (/\ stream_gen = "_stream_response"
     /\ stream_pc = "returned" /\ result.state = "ended") =>
        \E i \in DOMAIN events :
            /\ IsResultElement(events[i])
            /\ \A j \in DOMAIN events : IsResultElement(events[j]) => j = i
            /\ i > Len(result.produced)
            /\ \A j \in DOMAIN events : (j > i) => (events[j] = DoneEvent)

\* an agent as the constructor returns it: all its fields, a model it accepts
FullyConstructed(agent) ==
    /\ DOMAIN agent = {"model", "system_prompt", "tools"}
    /\ ~AgentRaises(agent.model)

\* C20: a create_agent that fails leaves the registry as it was, and every
\* agent a lookup can resolve is fully constructed.
C20_NoPartialRegistration ==
    [][/\ \A config \in Bodies :
            (create_agent(config) /\ resp'.status # 200)
                => agent_instances' = agent_instances
       /\ \A data \in AxonBodies :
            (axon_create_agent(data) /\ resp'.status # 200)
                => axon_agent_instances' = axon_agent_instances
       /\ \A agent_id \in DOMAIN agent_instances' :
            FullyConstructed(agent_instances'[agent_id])
       /\ \A agent_id \in DOMAIN axon_agent_instances' :
            FullyConstructed(axon_agent_instances'[agent_id])]_vars

\* create_agent failed on an invalid model for an id that is not registered,
\* while another agent is
C20_Witness ==
    /\ resp.op = "create_agent" /\ resp.error = "UserError"
    /\ ~RegisteredIn(agent_instances, resp.agent_id)
    /\ agent_instances # EmptyDict

\* the usage_limits of the request whose run ended last
SentLimits ==
    IF "usage_limits" \in DOMAIN last_run.run_body
    THEN last_run.run_body.usage_limits ELSE << >>

\* C12: a run_sync called with usage_limits.max_total_tokens = 0 ends with
\* UsageLimitExceeded and has made no completion call.
C12_ZeroTokenLimitMakesNoCall ==
    (/\ "max_total_tokens" \in DOMAIN SentLimits
     /\ SentLimits.max_total_tokens = 0)
        => /\ last_run.result.outcome = "UsageLimitExceeded"
           /\ last_run.result.usage.requests = 0

\* C13: the usage_limits a caller supplies (a limit that leaves room for a
\* first call) reach the run and are enforced: the run makes no more requests
\* than max_requests and uses no more tokens than max_total_tokens.
C13_UsageLimitsEnforced ==
    (/\ SentLimits # << >>
     /\ "max_total_tokens" \in DOMAIN SentLimits => SentLimits.max_total_tokens > 0)
    =>  /\ KwLimits(last_run.kwargs) = SentLimits
        /\ "max_requests" \in DOMAIN SentLimits
                => last_run.result.usage.requests <= SentLimits.max_requests
        /\ "max_total_tokens" \in DOMAIN SentLimits
                => last_run.result.usage.total_tokens <= SentLimits.max_total_tokens

\* the messages the run that ended last appended to the history it was given
NewMessages ==
    SubSeq(last_run.result.messages, Len(KwHistory(last_run.kwargs)) + 1,
           Len(last_run.result.messages))
CountParts(messages, part_kind) ==
    Cardinality({i \in DOMAIN messages : messages[i].part_kind = part_kind})

\* the i-th message is a response the run could not use: a text that failed
\* validation, or a tool call that no tool return follows
FailedResponse(messages, i) ==
    \/ messages[i].part_kind = "text" /\ messages[i].content = "?"
    \/ /\ messages[i].part_kind = "tool-call"
       /\ (i = Len(messages) \/ messages[i + 1].part_kind # "tool-return")
HardFailures == {"ValidationError", "UnexpectedModelBehavior"}

C15_FailureFeedsRetryPrompt ==
    last_run.app # "" =>
        \A i \in DOMAIN NewMessages :
            FailedResponse(NewMessages, i) =>
                IF i = Len(NewMessages)
                THEN /\ last_run.result.outcome \in HardFailures
                     /\ last_run.result.retries = RetryBudget
                     /\ CountParts(NewMessages, "retry-prompt") = RetryBudget
                ELSE /\ NewMessages[i + 1] =
                            RetryPromptPart(NewMessages[i].call_id)
                     /\ \/ i + 1 < Len(NewMessages)
                        \/ last_run.result.outcome = "UsageLimitExceeded"

\* a run recovered from a failed tool call and ended with a result
C15_Witness ==
    /\ last_run.app = "pydantic"
    /\ last_run.result.outcome = ""
    /\ last_run.result.retries = 1
    /\ \E i \in DOMAIN NewMessages :
            /\ NewMessages[i].part_kind = "tool-call"
            /\ FailedResponse(NewMessages, i)

\* a tool return or retry prompt that belongs to a tool call comes after the
\* tool call with the same id
Paired(messages) ==
    \A i \in DOMAIN messages :
        (/\ messages[i].part_kind \in {"tool-return", "retry-prompt"}
         /\ messages[i].call_id # 0)
            => \E j \in 1..(i - 1) :
                    /\ messages[j].part_kind = "tool-call"
                    /\ messages[j].call_id = messages[i].call_id
IsPrefix(s, t) == Len(s) <= Len(t) /\ SubSeq(t, 1, Len(s)) = s

\* C16: in the messages a run returns every ToolReturnPart and every
\* RetryPromptPart that names a tool call comes after the ToolCallPart with
\* that id, and the messages are in the order they were appended: the history
\* given to the run, the new user prompt, then the parts of the run in turn.
C16_ToolPartsPairedInOrder ==
    (last_run.app = "pydantic" /\ "messages" \in DOMAIN resp_body) =>
        /\ Paired(resp_body.messages)
        /\ resp_body.messages = last_run.result.messages
        /\ IsPrefix(Append(KwHistory(last_run.kwargs),
                           UserPromptPart(last_run.kwargs.prompt)),
                    (IF KwHistory(last_run.kwargs) = << >>
                     THEN Tail(resp_body.messages) ELSE resp_body.messages))

\* a run called a tool, got its return and ended with a text; the answer lists
\* the three parts after the prompt
C16_Witness ==
    /\ last_run.app = "pydantic"
    /\ "messages" \in DOMAIN resp_body
    /\ Len(NewMessages) >= 4
    /\ \E i \in DOMAIN resp_body.messages :
            /\ resp_body.messages[i].part_kind = "tool-return"
            /\ resp_body.messages[i].call_id # 0

\* the run that ended last was given a history that is the messages of an
\* earlier run: it starts with that run's system prompt
ReplayedHistory ==
    /\ KwHistory(last_run.kwargs) # << >>
    /\ KwHistory(last_run.kwargs)[1].part_kind = "system-prompt"

\* C17: the conversation of a run holds exactly one SystemPromptPart, its
\* first message, also when the messages of an earlier run were replayed as
\* message_history.
C17_SystemPromptOnce ==
    (last_run.app = "pydantic" /\ last_run.result.messages # << >>) =>
        /\ CountParts(last_run.result.messages, "system-prompt") = 1
        /\ last_run.result.messages[1].part_kind = "system-prompt"

\* a run with a replayed history called the model and was answered
C17_Witness ==
    /\ last_run.app = "pydantic"
    /\ ReplayedHistory
    /\ last_run.result.usage.requests >= 1
    /\ "messages" \in DOMAIN resp_body
    /\ CountParts(resp_body.messages, "user-prompt") = 2

WrapperRunStep ==
    \/ \E agent_id \in AgentIds, run_body \in RunBodies : run_agent(agent_id, run_body)
    \/ \E p \in pending, outcome \in {""} \cup RunErrors :
            run_agent_return(p, Ended(outcome))
    \/ \E agent_id \in AgentIds, tool_name \in ToolNames, args \in ToolArgs :
            call_tool(agent_id, tool_name, args)
    \/ \E p \in pending, outcome \in {"", "RuntimeError"} :
            call_tool_return(p, outcome)
    \/ \E agent_id \in AgentIds : run_agent_stream(agent_id)
    \/ \E p \in pending, outcome \in {"", "UnexpectedModelBehavior"} :
            run_agent_stream_return(p, outcome)
    \/ \E item \in Items : stream_next(item)
    \/ stream_close

\* the steps of a chat turn: the request with the prompt and the resumptions
\* of run_chat_stream
ChatTurnStep ==
    \/ \E chat_id \in ChatIds, request \in ChatPrompts : chat(chat_id, request)
    \/ \E t \in turns : run_chat_stream_enter(t)
    \/ \E t \in turns : run_chat_stream_end(t, "Hi there!")
    \/ \E t \in turns, outcome \in {"failed", "abandoned"} :
            run_chat_stream_abort(t, outcome)

\* C19 as stated: no step of a run, a stream or a tool call changes a
\* registry or a stored conversation history.
C19_RunsStoreNothing ==
    [][(WrapperRunStep \/ ChatTurnStep)
            => UNCHANGED <<registries, chat_histories>>]_vars

\* C19 amended: no step of a run, a stream or a tool call changes a registry,
\* and the endpoints of the wrapper store no history; a chat turn stores
\* nothing when it starts, fails or is abandoned, and a turn whose stream is
\* consumed to its end appends the prompt and the answer to the messages of
\* its chat.
C19_OnlyCompletedTurnStores ==
    [][/\ WrapperRunStep => UNCHANGED <<registries, chat_histories, next_chat_id>>
       /\ ChatTurnStep => UNCHANGED <<registries, next_chat_id>>
       /\ \A chat_id \in ChatIds, request \in ChatPrompts :
            chat(chat_id, request) => UNCHANGED chat_histories
       /\ \A t \in turns :
            /\ run_chat_stream_enter(t) => UNCHANGED chat_histories
            /\ \A outcome \in {"failed", "abandoned"} :
                    run_chat_stream_abort(t, outcome) => UNCHANGED chat_histories
            /\ run_chat_stream_end(t, "Hi there!") =>
                    chat_histories' =
                        DictSet(chat_histories, t.chat_id,
                                chat_histories[t.chat_id] \o
                                    <<ChatMessage("user", t.prompt),
                                      ChatMessage("assistant", "Hi there!")>>)
      ]_vars

\* a chat turn completed and the chat stores its prompt and its answer
C19_Witness ==
    /\ last_turn.outcome = "completed"
    /\ 1 \in DOMAIN chat_histories
    /\ chat_histories[1] =
            <<ChatMessage("user", "Hello"), ChatMessage("assistant", "Hi there!")>>

\* C29: every key of chat_histories is below next_chat_id, and new_chat
\* answers with an id that is no key yet, stores an empty history under it,
\* leaves every stored history as it is and raises next_chat_id above it.
C29_ChatIdsUnique ==
    /\ [](\A k \in DOMAIN chat_histories : k < next_chat_id)
    /\ [][new_chat =>
            /\ next_chat_id \notin DOMAIN chat_histories
            /\ resp'.agent_id = ToString(next_chat_id)
            /\ next_chat_id' > next_chat_id
            /\ DOMAIN chat_histories' = DOMAIN chat_histories \cup {next_chat_id}
            /\ \A k \in DOMAIN chat_histories :
                    chat_histories'[k] = chat_histories[k]]_vars

\* a second chat was created while the first one stores messages
C29_Witness ==
    /\ resp.op = "new_chat" /\ resp.agent_id = ToString(2)
    /\ DOMAIN chat_histories = {1, 2}
    /\ chat_histories[1] # << >>
    /\ chat_histories[2] = << >>

\* C30: a turn whose stream is consumed to its end appends to the messages
\* its chat holds at that moment the user prompt and then the final result,
\* and changes no other chat; a turn that fails or is abandoned changes no
\* history; a chat request for an unknown chat_id is answered 404 and creates
\* no history.
C30_TurnStoresOnCompletion ==
    [][/\ \A t \in turns :
            /\ run_chat_stream_end(t, "Hi there!") =>
                    /\ DOMAIN chat_histories' = DOMAIN chat_histories
                    /\ Len(chat_histories'[t.chat_id]) =
                            Len(chat_histories[t.chat_id]) + 2
                    /\ IsPrefix(chat_histories[t.chat_id], chat_histories'[t.chat_id])
                    /\ chat_histories'[t.chat_id][Len(chat_histories[t.chat_id]) + 1]
                            = ChatMessage("user", t.prompt)
                    /\ chat_histories'[t.chat_id][Len(chat_histories[t.chat_id]) + 2]
                            = ChatMessage("assistant", "Hi there!")
                    /\ \A k \in DOMAIN chat_histories \ {t.chat_id} :
                            chat_histories'[k] = chat_histories[k]
            /\ \A outcome \in {"failed", "abandoned"} :
                    run_chat_stream_abort(t, outcome) => chat_histories' = chat_histories
       /\ \A chat_id \in ChatIds, request \in ChatPrompts \cup ChatLists :
            (chat(chat_id, request) /\ chat_id \notin DOMAIN chat_histories)
                => /\ resp'.status = 404
                   /\ chat_histories' = chat_histories /\ turns' = turns
      ]_vars

\* two turns on one chat had both started on the empty history; the second
\* of them has completed and the chat stores the messages of both
C30_Witness ==
    /\ last_turn.outcome = "completed"
    /\ last_turn.given = << >>
    /\ 1 \in DOMAIN chat_histories
    /\ chat_histories[1] =
            <<ChatMessage("user", "Hello"), ChatMessage("assistant", "Hi there!"),
              ChatMessage("user", "Hello"), ChatMessage("assistant", "Hi there!")>>

\* C26: the status of the health metrics is "degraded" exactly when
\* error_count, the errors recorded since the last reset, is at least 5, and
\* "healthy" otherwise: record_error raises error_count by one and leaves
\* request_count, record_request raises request_count by one and leaves
\* error_count, reset_metrics sets request_count and error_count to 0 and
\* last_request to none (so the status after it is "healthy"), and the
\* report GetHealth returns shows the status and counts of that moment.
C26_DegradedFromFiveErrors ==
    /\ [](LET m == get_health_metrics(health_manager)
          IN  /\ m.status \in {"healthy", "degraded"}
              /\ m.status = "degraded" <=> health_manager.error_count >= 5
              /\ m.request_count = health_manager.request_count
              /\ m.error_count = health_manager.error_count)
    /\ [][/\ record_error =>
                /\ health_manager'.error_count = health_manager.error_count + 1
                /\ health_manager'.request_count = health_manager.request_count
          /\ record_request =>
                /\ health_manager'.request_count = health_manager.request_count + 1
                /\ health_manager'.error_count = health_manager.error_count
                /\ health_manager'.last_request # "None"
          /\ reset_metrics =>
                /\ health_manager'.request_count = 0
                /\ health_manager'.error_count = 0
                /\ health_manager'.last_request = "None"
                /\ get_health_metrics(health_manager').status = "healthy"
          /\ GetHealth =>
                /\ metrics'.status = "degraded" <=> health_manager.error_count >= 5
                /\ metrics'.status = "healthy" <=> health_manager.error_count < 5
                /\ metrics'.error_count = health_manager.error_count
                /\ metrics'.request_count = health_manager.request_count]_vars

\* a report taken at the fifth error said "degraded", one more error was
\* recorded, and the metrics have been reset since
C26_Witness ==
    /\ metrics.status = "degraded" /\ metrics.error_count = 5
    /\ health_manager = HealthManager("None", 0, 0)
    /\ get_health_metrics(health_manager).status = "healthy"

\* C27: error_count never exceeds request_count, and no health report shows
\* an error_rate above 1, whatever the interleaving of Predict calls (pings
\* included) and reset_metrics.
C27_ErrorsWithinRequests ==
    /\ health_manager.error_count <= health_manager.request_count
    /\ metrics.error_rate.num <= metrics.error_rate.den

\* C28: the k-th response of a StreamPredict call is the prediction for the
\* k-th request it consumed, so the responses never outnumber the requests
\* consumed; a call whose processing failed is aborted with every request
\* before the failed one answered and the failed one not, and yields nothing
\* from then on.
C28_StreamPredictInOrder ==
    /\ [](/\ Len(stream_predict.responses) <= Len(stream_predict.requests)
          /\ \A k \in DOMAIN stream_predict.responses :
                stream_predict.responses[k] =
                    process_prediction(PredictionRequest(stream_predict.requests[k]))
          /\ stream_predict.pc \in {"waiting", "done"} =>
                Len(stream_predict.responses) = Len(stream_predict.requests)
          /\ stream_predict.pc \in {"processing", "aborted"} =>
                Len(stream_predict.responses) = Len(stream_predict.requests) - 1
          /\ stream_predict.pc = "aborted" => resp.status = 13)
    /\ [][/\ IsPrefix(stream_predict.responses, stream_predict'.responses)
          /\ IsPrefix(stream_predict.requests, stream_predict'.requests)
          /\ Len(stream_predict'.responses) <= Len(stream_predict.responses) + 1
          /\ stream_predict.pc = "aborted" => stream_predict' = stream_predict]_vars

\* the third request of a call failed after an upper-case and a plain
\* response: the call is aborted with two responses for three requests
C28_Witness ==
    /\ stream_predict.pc = "aborted"
    /\ Len(stream_predict.requests) = 3
    /\ Len(stream_predict.responses) = 2
    /\ stream_predict.responses[1].output.upper
    /\ ~stream_predict.responses[2].output.upper
    /\ stream_predict.responses[2].output.text = "World"
    /\ resp.error = "RuntimeError"

\* C21: create_agent requests for one id are handled one after the other
\* (the handler does not suspend between its test and its write), so of two
\* requests for an unregistered id exactly one succeeds: a create_agent
\* answers success exactly when the id was not registered, then registers
\* the agent of its own request, and a create_agent for a registered id fails
\* and leaves the registered agent as it is; in either wrapper.
C21_ConcurrentCreatesSerialized ==
    [][/\ \A config \in ValidBodies :
            create_agent(config) =>
                IF RegisteredIn(agent_instances, config.agent_id)
                THEN /\ resp'.status # 200
                     /\ agent_instances' = agent_instances
                ELSE /\ resp'.status = 200
                     /\ RegisteredIn(agent_instances', config.agent_id)
                     /\ agent_instances'[config.agent_id] =
                            Agent(config.model, config.system_prompt, config.tools)
       /\ \A data \in ValidAxonBodies :
            axon_create_agent(data) =>
                IF RegisteredIn(axon_agent_instances, data.agent_id)
                THEN /\ resp'.status # 200
                     /\ axon_agent_instances' = axon_agent_instances
                ELSE /\ resp'.status = 200
                     /\ RegisteredIn(axon_agent_instances', data.agent_id)
                     /\ axon_agent_instances'[data.agent_id] =
                            Agent(data.model, data.system_prompt, data.tools)]_vars

\* C25: delete_agent on an id with a run or a response stream request
\* suspended at its model call succeeds and leaves the suspended handler with
\* the agent it resolved; the handler then completes with that agent (a run
\* that ends well is answered 200 with the messages of a run under that
\* agent's system prompt, a stream request with its response stream) and is
\* never answered AgentNotFound; a run or stream request started while the id
\* is not registered is answered AgentNotFound (404) and invokes nothing.
C25_RunBorrowsResolvedAgent ==
    [][/\ \A agent_id \in AgentIds :
            (delete_agent(agent_id) /\ RegisteredIn(agent_instances, agent_id)) =>
                /\ resp'.status = 200
                /\ ~RegisteredIn(agent_instances', agent_id)
                /\ pending' = pending
       /\ \A p \in pending, script \in BorrowScripts :
            (/\ run_agent_return(p, AgentRun(p.agent, p.kwargs, script))
             /\ ~RegisteredIn(agent_instances, p.agent_id)) =>
                /\ resp'.op = "run_agent" /\ resp'.agent_id = p.agent_id
                /\ resp'.error # "AgentNotFoundError" /\ resp'.status # 404
                /\ last_run'.result = AgentRun(p.agent, p.kwargs, script)
                /\ last_run'.result.outcome = "" =>
                        /\ resp'.status = 200
                        /\ resp_body'.messages[1] = SystemPromptPart(p.agent.system_prompt)
       /\ \A p \in pending, outcome \in {"", "UnexpectedModelBehavior"} :
            (/\ run_agent_stream_return(p, outcome)
             /\ ~RegisteredIn(agent_instances, p.agent_id)) =>
                /\ resp'.op = "run_agent_stream" /\ resp'.agent_id = p.agent_id
                /\ resp'.error # "AgentNotFoundError" /\ resp'.status # 404
                /\ outcome = "" => resp'.status = 200 /\ stream_pc' = "start"
       /\ \A agent_id \in AgentIds, run_body \in PlainRunBodies :
            ((run_agent(agent_id, run_body) \/ run_agent_stream(agent_id))
                /\ ~RegisteredIn(agent_instances, agent_id)) =>
                /\ resp'.status = 404 /\ resp'.error = "AgentNotFoundError"
                /\ resp'.agent_id = agent_id
                /\ invoked' = {} /\ pending' = pending]_vars

\* delete_agent has just succeeded on the id of a run that is still suspended
\* at its model call
C25_Witness ==
    /\ resp.op = "delete_agent" /\ resp.status = 200
    /\ resp.agent_id = "test_agent"
    /\ ~RegisteredIn(agent_instances, "test_agent")
    /\ \E p \in pending : p.agent_id = "test_agent" /\ p.op = "run_agent"

\* C22: the answer of a tool call that ends well is the result of the pure
\* handler for the tool name and the arguments of the request and nothing
\* else: the handler is called for the agent the id resolves to with the tool
\* name and arguments as they were sent, and its result is answered as it is,
\* whatever was called or answered before. So two calls with the same
\* agent_id, tool_name and arguments and no registry change between them
\* return identical results.
C22_CallToolDeterministic ==
    [][/\ \A agent_id \in AgentIds, tool_name \in ToolNames, args \in ToolCallArgs :
            (call_tool(agent_id, tool_name, args) /\ pending' # pending) =>
                /\ agent_instances' = agent_instances
                /\ \E p \in pending' \ pending :
                        /\ p.agent = agent_instances[agent_id]
                        /\ p.kwargs = [tool_name |-> tool_name, args |-> args]
       /\ \A p \in pending :
            call_tool_return(p, "") =>
                /\ resp' = Response("pydantic", "call_tool", p.agent_id, 200, "")
                /\ tool_result' =
                        [result |-> ToolHandler(p.kwargs.tool_name, p.kwargs.args)]
                /\ agent_instances' = agent_instances]_vars

\* a tool call with the input "again" has just been answered with the
\* handler's result for "again"
C22_Witness ==
    /\ resp.op = "call_tool" /\ resp.status = 200
    /\ resp.agent_id = "test_agent"
    /\ tool_result = [result |->
            ToolHandler("test_tool", [input |-> Value("string", "again")])]

\* C23: call_tool on an agent that declares the tool calls the handler only
\* with arguments that pass the parameter schema: when the required field is
\* missing or a field is not of the declared primitive kind the call fails
\* with ArgumentValidationError and no handler is called; arguments that have
\* the required field with its kind are accepted, unknown extra fields or not,
\* and the handler is called.
C23_ValidatedBeforeInvocation ==
    [][\A agent_id \in AgentIds, args \in ToolCallArgs :
            (/\ call_tool(agent_id, "test_tool", args)
             /\ RegisteredIn(agent_instances, agent_id)
             /\ "test_tool" \in Range(agent_instances[agent_id].tools)) =>
                IF "input" \notin DOMAIN args \/ args.input.kind # "string"
                THEN /\ resp'.op = "call_tool" /\ resp'.agent_id = agent_id
                     /\ resp'.error = "ArgumentValidationError"
                     /\ resp'.status # 200
                     /\ "handler" \notin invoked'
                     /\ pending' = pending
                ELSE /\ "handler" \in invoked'
                     /\ pending' # pending
                     /\ resp' = resp]_vars

\* a call with an input of the wrong kind failed with ArgumentValidationError,
\* and a later call whose arguments add an unknown field reached the handler
C23_Witness ==
    /\ resp.op = "call_tool" /\ resp.error = "ArgumentValidationError"
    /\ "handler" \in invoked
    /\ \E p \in pending : p.op = "call_tool" /\ "extra" \in DOMAIN p.kwargs.args

\* C24: an exception of no named kind raised inside create_agent, run_sync,
\* run_stream or call_tool is answered with an error outcome (never success)
\* that carries the message of that exception, in each wrapper.
C24_FailureCarriesMessage ==
    [][/\ \A config \in CompleteBodies :
            (create_agent(config) /\ AgentRaises(config.model)) =>
                resp'.status # 200 /\ resp'.error = "UserError"
       /\ \A p \in pending :
            (\/ run_agent_return(p, Ended("RuntimeError"))
             \/ call_tool_return(p, "RuntimeError")
             \/ run_agent_stream_return(p, "RuntimeError")
             \/ run_agent_sync_return(p, "RuntimeError")) =>
                resp'.status # 200 /\ resp'.error = "RuntimeError"
       /\ \A agent_id \in AxonAgentIds :
            (/\ axon_run_agent_stream(agent_id, "RuntimeError")
             /\ RegisteredIn(axon_agent_instances, agent_id)) =>
                resp'.status # 200 /\ resp'.error = "RuntimeError"]_vars

====
